---------------------------- MODULE Spec2Model ----------------------------
(***************************************************************************)
(* Model of the command channel, the command dispatcher, the terminal      *)
(* emulator and the line editor of src/rp/src/term.c.                      *)
(*                                                                         *)
(* Characters are their byte values (0..255).  C arrays are functions over *)
(* 0..N-1 so that index arithmetic reads as in the source; C strings       *)
(* handed between functions are sequences of non-zero bytes.               *)
(***************************************************************************)
EXTENDS Integers, Sequences, FiniteSets, TLC

(***************************************************************************)
(* Sizes.  term.h, display_term.h and tprotocol.h are not part of the      *)
(* sources at hand: the grid, the line buffer and the payload capacity are *)
(* scaled down (they are the bounds of the model), the remaining values    *)
(* are the ones the comments of term.c state or fixed symbolic choices.    *)
(***************************************************************************)
TERM_SCREEN_SIZE_X == 6
TERM_SCREEN_SIZE_Y == 3
TERM_INPUT_BUFFER_SIZE == 4
MAX_PROTOCOL_PAYLOAD_SIZE == 8
MaxPublishes == 3
MaxLoops == 2

TERM_SCREEN_SIZE == TERM_SCREEN_SIZE_X * TERM_SCREEN_SIZE_Y
\* The display holds one text row more than the terminal grid: the scroll
\* routine leaves the last display row alone ("scroll except for the last row").
DISPLAY_TERM_ROWS == TERM_SCREEN_SIZE_Y + 1
DISPLAY_BUFFER_SIZE == DISPLAY_TERM_ROWS * TERM_SCREEN_SIZE_X
\* One text row of the display buffer, in cells.
TERM_DISPLAY_ROW_BYTES == TERM_SCREEN_SIZE_X

TERM_ESC_BUFFLINE_SIZE == 16
TERM_ESC_CHAR == 27
TERM_POS_X == 32
TERM_POS_Y == 32
SCAN_WIDTH == 63
APP_TERMINAL_START == 0
APP_TERMINAL_KEYSTROKE == 1
APP_OTHER_COMMAND == 2
TERM_KEYBOARD_KEY_MASK == 255
TERM_RANDOM_TOKEN_OFFSET == 0
TERM_RANDON_TOKEN_SEED_OFFSET == 4
ROM_IN_RAM_START == 1024

CH_NUL == 0
CH_BS == 8
CH_LF == 10
CH_CR == 13
CH_SPACE == 32
\* What the display shows in a cell holding the block cursor.
CURSOR_GLYPH == 256

DISPLAY_COMMAND_NONE == "none"
DISPLAY_COMMAND_TERM == "term"
DISPLAY_COMMAND_CONTINUE == "continue"

STR_WELCOME_1 ==
  <<87, 101, 108, 99, 111, 109, 101, 32, 116, 111, 32, 116, 104, 101, 32,
    116, 101, 114, 109, 105, 110, 97, 108, 33, 10>>
STR_WELCOME_2 ==
  <<80, 114, 101, 115, 115, 32, 69, 83, 67, 32, 116, 111, 32, 101, 110, 116,
    101, 114, 32, 116, 104, 101, 32, 116, 101, 114, 109, 105, 110, 97, 108,
    46, 10>>
STR_WELCOME_3 ==
  <<111, 114, 32, 97, 110, 121, 32, 83, 72, 73, 70, 84, 32, 107, 101, 121,
    32, 116, 111, 32, 98, 111, 111, 116, 32, 116, 104, 101, 32, 100, 101,
    115, 107, 116, 111, 112, 46, 10>>
STR_HELP_HINT ==
  <<84, 121, 112, 101, 32, 39, 104, 101, 108, 112, 39, 32, 102, 111, 114,
    32, 97, 118, 97, 105, 108, 97, 98, 108, 101, 32, 99, 111, 109, 109, 97,
    110, 100, 115, 46, 10>>
STR_PROMPT == <<62, 32>>
STR_EXITING ==
  <<69, 120, 105, 116, 105, 110, 103, 32, 116, 101, 114, 109, 105, 110, 97,
    108, 46, 46, 46, 10>>
STR_UNKNOWN ==
  <<85, 110, 107, 110, 111, 119, 110, 32, 99, 111, 109, 109, 97, 110, 100,
    46, 32, 84, 121, 112, 101, 32, 39, 104, 101, 108, 112, 39, 32, 102, 111,
    114, 32, 97, 32, 108, 105, 115, 116, 32, 111, 102, 32, 99, 111, 109,
    109, 97, 110, 100, 115, 46, 10>>

(***************************************************************************)
(* The command registry handed to term_setCommands: an ordered table of    *)
(* (name, handler) pairs owned by the caller.  "x" is registered twice, and *)
(* so is the empty name, which marks a fallback entry; the two fallback    *)
(* entries are apart, with a named entry between them.  The registry is a  *)
(* prefix of the table: the count handed to term_setCommands.              *)
(***************************************************************************)
commands ==
  << [command |-> <<99>>,  handler |-> "term_cmdClear"],
     [command |-> <<120>>, handler |-> "term_cmdExit"],
     [command |-> <<>>,    handler |-> "term_cmdUnknown"],
     [command |-> <<120>>, handler |-> "term_cmdExit"],
     [command |-> <<>>,    handler |-> "term_cmdUnknown"] >>

---------------------------------------------------------------------------
(* Terminal state threaded through the nested calls of one operation.      *)

\* numCommands is the count given to term_setCommands: the registry is the
\* first numCommands entries of the table.
VARIABLES screen, cursorX, cursorY, prevCursorX, prevCursorY,
          inputBuffer, inputLength, display, menuRowsValid, menuPromptValid,
          displayCommand, invoked, numCommands

\* The rows of the live lines of the menu and the position of its prompt,
\* meaningful while menuRowsValid and menuPromptValid are set, and the live
\* lines as term_refreshMenuLiveInfo printed them last (its static arrays).
VARIABLES menuRowSsid, menuRowSelect, menuRowSd, menuPromptRow, menuPromptCol,
          prevSsidLine, prevSelectLine, prevSdLine

menuVars == <<menuRowSsid, menuRowSelect, menuRowSd, menuPromptRow,
              menuPromptCol, prevSsidLine, prevSelectLine, prevSdLine>>

termVars == <<screen, cursorX, cursorY, prevCursorX, prevCursorY,
              inputBuffer, inputLength, display, menuRowsValid,
              menuPromptValid, displayCommand, invoked, numCommands,
              menuVars>>

\* The terminal state as one value.
Term ==
  [screen |-> screen, cursorX |-> cursorX, cursorY |-> cursorY,
   prevCursorX |-> prevCursorX, prevCursorY |-> prevCursorY,
   inputBuffer |-> inputBuffer, inputLength |-> inputLength,
   display |-> display, menuRowsValid |-> menuRowsValid,
   menuPromptValid |-> menuPromptValid, displayCommand |-> displayCommand,
   invoked |-> invoked, numCommands |-> numCommands,
   menuRowSsid |-> menuRowSsid, menuRowSelect |-> menuRowSelect,
   menuRowSd |-> menuRowSd, menuPromptRow |-> menuPromptRow,
   menuPromptCol |-> menuPromptCol, prevSsidLine |-> prevSsidLine,
   prevSelectLine |-> prevSelectLine, prevSdLine |-> prevSdLine]

\* The next terminal state is t.
SetTerm(t) ==
  /\ screen' = t.screen
  /\ cursorX' = t.cursorX
  /\ cursorY' = t.cursorY
  /\ prevCursorX' = t.prevCursorX
  /\ prevCursorY' = t.prevCursorY
  /\ inputBuffer' = t.inputBuffer
  /\ inputLength' = t.inputLength
  /\ display' = t.display
  /\ menuRowsValid' = t.menuRowsValid
  /\ menuPromptValid' = t.menuPromptValid
  /\ displayCommand' = t.displayCommand
  /\ invoked' = t.invoked
  /\ numCommands' = t.numCommands
  /\ menuRowSsid' = t.menuRowSsid
  /\ menuRowSelect' = t.menuRowSelect
  /\ menuRowSd' = t.menuRowSd
  /\ menuPromptRow' = t.menuPromptRow
  /\ menuPromptCol' = t.menuPromptCol
  /\ prevSsidLine' = t.prevSsidLine
  /\ prevSelectLine' = t.prevSelectLine
  /\ prevSdLine' = t.prevSdLine

\* Static storage: zero-initialised arrays and counters, and the registry
\* as the application's term_setCommands call at start-up leaves it.
TermInit ==
  [screen |-> [i \in 0..(TERM_SCREEN_SIZE - 1) |-> CH_NUL],
   cursorX |-> 0, cursorY |-> 0, prevCursorX |-> 0, prevCursorY |-> 0,
   inputBuffer |-> [i \in 0..(TERM_INPUT_BUFFER_SIZE - 1) |-> CH_NUL],
   inputLength |-> 0,
   display |-> [i \in 0..(DISPLAY_BUFFER_SIZE - 1) |-> CH_SPACE],
   menuRowsValid |-> FALSE, menuPromptValid |-> FALSE,
   displayCommand |-> DISPLAY_COMMAND_NONE,
   invoked |-> <<>>,
   numCommands |-> Len(commands),
   menuRowSsid |-> 0, menuRowSelect |-> 0, menuRowSd |-> 0,
   menuPromptRow |-> 0, menuPromptCol |-> 0,
   prevSsidLine |-> <<>>, prevSelectLine |-> <<>>, prevSdLine |-> <<>>]

---------------------------------------------------------------------------
(* Display subsystem, at the granularity of character cells.               *)
(*                                                                         *)
(* Statements that run one after the other are written                     *)
(*   CHOOSE r \in { e2 : s \in { e1 } } : TRUE                             *)
(* which is "s = e1; return e2" with e1 evaluated exactly once.            *)

display_termChar(t, x, y, chr) ==
  [t EXCEPT !.display[y * TERM_SCREEN_SIZE_X + x] = chr]

display_termCursor(t, x, y) ==
  [t EXCEPT !.display[y * TERM_SCREEN_SIZE_X + x] = CURSOR_GLYPH]

display_termClear(t) ==
  [t EXCEPT !.display = [i \in 0..(DISPLAY_BUFFER_SIZE - 1) |-> CH_SPACE]]

---------------------------------------------------------------------------
(* Screen buffer.                                                          *)

term_clearScreen(t) ==
  display_termClear(
    [t EXCEPT !.screen = [i \in 0..(TERM_SCREEN_SIZE - 1) |-> CH_NUL],
              !.cursorX = 0, !.cursorY = 0,
              !.menuRowsValid = FALSE, !.menuPromptValid = FALSE])

\* memset of the line buffer and inputLength = 0.
term_clearInputBuffer(t) ==
  [t EXCEPT !.inputBuffer = [i \in 0..(TERM_INPUT_BUFFER_SIZE - 1) |-> CH_NUL],
            !.inputLength = 0]

\* The prompt of the menu is where the cursor is now.
term_markMenuPromptCursor(t) ==
  [t EXCEPT !.menuPromptRow = t.cursorY, !.menuPromptCol = t.cursorX,
            !.menuPromptValid = TRUE]

\* memmove of the display buffer up by blankBytes, leaving the last text row
\* of the display alone, then memset of the row above it.
termScrollupBuffer(t, blankBytes) ==
  [t EXCEPT !.display =
     [i \in 0..(DISPLAY_BUFFER_SIZE - 1) |->
        IF i < DISPLAY_BUFFER_SIZE - blankBytes - TERM_SCREEN_SIZE_X
        THEN @[i + blankBytes]
        ELSE IF i < DISPLAY_BUFFER_SIZE - TERM_SCREEN_SIZE_X THEN CH_SPACE
        ELSE @[i]]]

\* A scroll that moves the rows up and leaves the old bottom row in place.
termScrollUpNoBlank(t) ==
  termScrollupBuffer(
    [t EXCEPT !.screen =
       [i \in 0..(TERM_SCREEN_SIZE - 1) |->
          IF i < TERM_SCREEN_SIZE - TERM_SCREEN_SIZE_X
          THEN @[i + TERM_SCREEN_SIZE_X]
          ELSE @[i]]],
    TERM_DISPLAY_ROW_BYTES)

termScrollUp(t) ==
  termScrollupBuffer(
    [t EXCEPT !.screen =
       [i \in 0..(TERM_SCREEN_SIZE - 1) |->
          IF i < TERM_SCREEN_SIZE - TERM_SCREEN_SIZE_X
          THEN @[i + TERM_SCREEN_SIZE_X]
          ELSE CH_NUL]],
    TERM_DISPLAY_ROW_BYTES)

\* A write that wraps to the next row and never scrolls.
termPutCharNoClamp(t, chr) ==
  CHOOSE r \in
    { LET t2 == display_termChar(
                  [s EXCEPT !.screen[s.cursorY * TERM_SCREEN_SIZE_X + s.cursorX] = chr],
                  s.cursorX, s.cursorY, chr)
      IN IF s.cursorX + 1 >= TERM_SCREEN_SIZE_X
         THEN [t2 EXCEPT !.cursorX = 0, !.cursorY = s.cursorY + 1]
         ELSE [t2 EXCEPT !.cursorX = s.cursorX + 1]
      : s \in {t} } : TRUE

termPutChar(t, chr) ==
  CHOOSE r \in
    { LET t2 == display_termChar(
                  [s EXCEPT !.screen[s.cursorY * TERM_SCREEN_SIZE_X + s.cursorX] = chr],
                  s.cursorX, s.cursorY, chr)
      IN IF s.cursorX + 1 >= TERM_SCREEN_SIZE_X
         THEN IF s.cursorY + 1 >= TERM_SCREEN_SIZE_Y
              THEN [termScrollUp([t2 EXCEPT !.cursorX = 0,
                                            !.cursorY = s.cursorY + 1])
                      EXCEPT !.cursorY = TERM_SCREEN_SIZE_Y - 1]
              ELSE [t2 EXCEPT !.cursorX = 0, !.cursorY = s.cursorY + 1]
         ELSE [t2 EXCEPT !.cursorX = s.cursorX + 1]
      : s \in {t} } : TRUE

\* A renderer that takes only '\n' as a line end and writes '\r' as a
\* character.
termRenderCharCrLiteral(t, chr) ==
  CHOOSE r \in
    { [display_termCursor(t2, t2.cursorX, t2.cursorY)
         EXCEPT !.prevCursorX = t2.cursorX, !.prevCursorY = t2.cursorY]
      : t2 \in
          { LET t1 == display_termChar(s, s.prevCursorX, s.prevCursorY, CH_SPACE)
            IN IF chr = CH_LF
               THEN IF s.cursorY + 1 >= TERM_SCREEN_SIZE_Y
                    THEN [termScrollUp([t1 EXCEPT !.cursorX = 0,
                                                  !.cursorY = s.cursorY + 1])
                            EXCEPT !.cursorY = TERM_SCREEN_SIZE_Y - 1]
                    ELSE [t1 EXCEPT !.cursorX = 0, !.cursorY = s.cursorY + 1]
               ELSE IF chr # CH_NUL THEN termPutChar(t1, chr)
               ELSE t1
            : s \in {t} } } : TRUE

termRenderChar(t, chr) ==
  CHOOSE r \in
    { [display_termCursor(t2, t2.cursorX, t2.cursorY)
         EXCEPT !.prevCursorX = t2.cursorX, !.prevCursorY = t2.cursorY]
      : t2 \in
          { LET t1 == display_termChar(s, s.prevCursorX, s.prevCursorY, CH_SPACE)
            IN IF chr = CH_LF \/ chr = CH_CR
               THEN IF s.cursorY + 1 >= TERM_SCREEN_SIZE_Y
                    THEN [termScrollUp([t1 EXCEPT !.cursorX = 0,
                                                  !.cursorY = s.cursorY + 1])
                            EXCEPT !.cursorY = TERM_SCREEN_SIZE_Y - 1]
                    ELSE [t1 EXCEPT !.cursorX = 0, !.cursorY = s.cursorY + 1]
               ELSE IF chr # CH_NUL THEN termPutChar(t1, chr)
               ELSE t1
            : s \in {t} } } : TRUE

\* Blank the cells (posX, posY) with posX in xs and posY in ys, in the screen
\* buffer and on the display.
ClearCells(t, xs, ys) ==
  [t EXCEPT
     !.screen = [i \in 0..(TERM_SCREEN_SIZE - 1) |->
                   IF (i % TERM_SCREEN_SIZE_X) \in xs /\ (i \div TERM_SCREEN_SIZE_X) \in ys
                   THEN CH_NUL ELSE @[i]],
     !.display = [i \in 0..(DISPLAY_BUFFER_SIZE - 1) |->
                   IF (i % TERM_SCREEN_SIZE_X) \in xs /\ (i \div TERM_SCREEN_SIZE_X) \in ys
                   THEN CH_SPACE ELSE @[i]]]

\* A cursor move that wraps around the grid edges.
vt52CursorMoveWrap(s, command) ==
  CASE command = 65 ->
         [s EXCEPT !.cursorY = (s.cursorY + TERM_SCREEN_SIZE_Y - 1) % TERM_SCREEN_SIZE_Y]
    [] command = 66 ->
         [s EXCEPT !.cursorY = (s.cursorY + 1) % TERM_SCREEN_SIZE_Y]
    [] command = 67 ->
         [s EXCEPT !.cursorX = (s.cursorX + 1) % TERM_SCREEN_SIZE_X]
    [] command = 68 ->
         [s EXCEPT !.cursorX = (s.cursorX + TERM_SCREEN_SIZE_X - 1) % TERM_SCREEN_SIZE_X]

\* The cursor assignment of cases 'A', 'B', 'C' and 'D'.
vt52CursorMove(s, command) ==
  CASE command = 65 ->
         IF s.cursorY > 0 THEN [s EXCEPT !.cursorY = s.cursorY - 1] ELSE s
    [] command = 66 ->
         IF s.cursorY < TERM_SCREEN_SIZE_Y - 1
         THEN [s EXCEPT !.cursorY = s.cursorY + 1] ELSE s
    [] command = 67 ->
         IF s.cursorX < TERM_SCREEN_SIZE_X - 1
         THEN [s EXCEPT !.cursorX = s.cursorX + 1] ELSE s
    [] command = 68 ->
         IF s.cursorX > 0 THEN [s EXCEPT !.cursorX = s.cursorX - 1] ELSE s

\* Direct addressing that takes the coordinates without the range test.
vt52DirectAddressUnchecked(s, seq) ==
  [s EXCEPT !.cursorY = (seq[3] - TERM_POS_Y) % 256,
            !.cursorX = (seq[4] - TERM_POS_X) % 256]

\* The cursor assignment of case 'Y': row and col from the two bytes after
\* the command letter.  A byte above 127 gives a row or column that is out
\* of range whether char is signed or not.
vt52DirectAddress(s, seq) ==
  IF /\ seq[3] - TERM_POS_Y >= 0
     /\ seq[3] - TERM_POS_Y < TERM_SCREEN_SIZE_Y
     /\ seq[4] - TERM_POS_X >= 0
     /\ seq[4] - TERM_POS_X < TERM_SCREEN_SIZE_X
  THEN [s EXCEPT !.cursorY = seq[3] - TERM_POS_Y,
                 !.cursorX = seq[4] - TERM_POS_X]
  ELSE s

\* seq is the escape buffer, a sequence whose first element is ESC.
vt52ProcessSequence(t, seq) ==
  IF Len(seq) < 2 THEN t
  ELSE
    CHOOSE r \in
      { CASE seq[2] \in {65, 66, 67, 68} ->   \* 'A', 'B', 'C', 'D'
               termRenderChar(vt52CursorMove(s, seq[2]), CH_NUL)
          [] seq[2] = 69 ->   \* 'E'
               ClearCells(
                 termRenderChar([s EXCEPT !.cursorX = 0, !.cursorY = 0], CH_NUL),
                 0..(TERM_SCREEN_SIZE_X - 1), 0..(TERM_SCREEN_SIZE_Y - 1))
          [] seq[2] = 72 ->   \* 'H'
               termRenderChar([s EXCEPT !.cursorX = 0, !.cursorY = 0], CH_NUL)
          [] seq[2] = 74 ->   \* 'J'
               ClearCells(s, s.cursorX..(TERM_SCREEN_SIZE_X - 1),
                             s.cursorY..(TERM_SCREEN_SIZE_Y - 1))
          [] seq[2] = 75 ->   \* 'K'
               ClearCells(s, s.cursorX..(TERM_SCREEN_SIZE_X - 1), {s.cursorY})
          [] seq[2] = 89 ->   \* 'Y'
               IF Len(seq) = 4
               THEN termRenderChar(vt52DirectAddress(s, seq), CH_NUL)
               ELSE s
          [] OTHER -> s
        : s \in {t} } : TRUE

RECURSIVE RenderAll(_, _, _)
\* termRenderChar of bytes[i], bytes[i+1], ... in order.
RenderAll(t, bytes, i) ==
  IF i > Len(bytes) THEN t
  ELSE RenderAll(termRenderChar(t, bytes[i]), bytes, i + 1)

\* The locals of term_printString with the terminal state: inEsc is
\* state == STATE_ESC, escBuffer holds escLen bytes.
PrintStart(t) == [term |-> t, inEsc |-> FALSE, escBuffer |-> <<>>]

\* An accumulator that takes every escape sequence as complete at two
\* bytes.
PrintStepTwoBytes(st, chr) ==
  CHOOSE r \in
    { IF ~s.inEsc
      THEN IF chr = TERM_ESC_CHAR
           THEN [s EXCEPT !.inEsc = TRUE, !.escBuffer = <<chr>>]
           ELSE [s EXCEPT !.term = termRenderChar(@, chr)]
      ELSE
        [term |-> vt52ProcessSequence(s.term, Append(s.escBuffer, chr)),
         inEsc |-> FALSE,
         escBuffer |-> Append(s.escBuffer, chr)]
      : s \in {st} } : TRUE

\* An accumulator that takes ESC Y as complete at five bytes.
PrintStepLongY(st, chr) ==
  CHOOSE r \in
    { IF ~s.inEsc
      THEN IF chr = TERM_ESC_CHAR
           THEN [s EXCEPT !.inEsc = TRUE, !.escBuffer = <<chr>>]
           ELSE [s EXCEPT !.term = termRenderChar(@, chr)]
      ELSE
        LET buf == Append(s.escBuffer, chr)
            done == \/ (Len(buf) = 2 /\ buf[2] # 89)
                    \/ (Len(buf) # 2 /\ buf[2] = 89 /\ Len(buf) = 5)
            overflow == Len(buf) >= TERM_ESC_BUFFLINE_SIZE
        IN [term |-> IF overflow
                     THEN RenderAll(IF done THEN vt52ProcessSequence(s.term, buf)
                                    ELSE s.term,
                                    buf, 1)
                     ELSE IF done THEN vt52ProcessSequence(s.term, buf)
                     ELSE s.term,
            inEsc |-> ~(done \/ overflow),
            escBuffer |-> buf]
      : s \in {st} } : TRUE

\* One iteration of the while loop of term_printString, on byte chr.
PrintStep(st, chr) ==
  CHOOSE r \in
    { IF ~s.inEsc
      THEN IF chr = TERM_ESC_CHAR
           THEN [s EXCEPT !.inEsc = TRUE, !.escBuffer = <<chr>>]
           ELSE [s EXCEPT !.term = termRenderChar(@, chr)]
      ELSE
        LET buf == Append(s.escBuffer, chr)
            done == \/ (Len(buf) = 2 /\ buf[2] # 89)
                    \/ (Len(buf) # 2 /\ buf[2] = 89 /\ Len(buf) = 4)
            overflow == Len(buf) >= TERM_ESC_BUFFLINE_SIZE
        IN [term |-> IF overflow
                     THEN RenderAll(IF done THEN vt52ProcessSequence(s.term, buf)
                                    ELSE s.term,
                                    buf, 1)
                     ELSE IF done THEN vt52ProcessSequence(s.term, buf)
                     ELSE s.term,
            inEsc |-> ~(done \/ overflow),
            escBuffer |-> buf]
      : s \in {st} } : TRUE

RECURSIVE PrintRange(_, _, _, _)
\* The iterations of the while loop on str[lo..hi], in order: the first half
\* of the range, then the second.
PrintRange(st, str, lo, hi) ==
  IF lo > hi THEN st
  ELSE IF lo = hi THEN PrintStep(st, str[lo])
  ELSE CHOOSE r \in
         { PrintRange(first, str, ((lo + hi) \div 2) + 1, hi)
           : first \in { PrintRange(st, str, lo, (lo + hi) \div 2) } } : TRUE

\* Number of bytes of str before its terminating NUL.
StrLen(str) ==
  IF \E i \in 1..Len(str) : str[i] = CH_NUL
  THEN (CHOOSE i \in 1..Len(str) :
          str[i] = CH_NUL /\ \A k \in 1..(i - 1) : str[k] # CH_NUL) - 1
  ELSE Len(str)

\* A print that returns without the flush of an unfinished sequence.
term_printStringNoFlush(t, str) ==
  CHOOSE x \in
    { r.term
      : r \in { PrintRange(PrintStart(t), str, 1, StrLen(str)) } } : TRUE

\* A print whose final flush tests escLen instead of the state.
term_printStringFlushByLength(t, str) ==
  CHOOSE x \in
    { IF Len(r.escBuffer) > 0 THEN RenderAll(r.term, r.escBuffer, 1) ELSE r.term
      : r \in { PrintRange(PrintStart(t), str, 1, StrLen(str)) } } : TRUE

\* display_termRefresh pushes the buffer to the panel: no state of its own.
term_printString(t, str) ==
  CHOOSE x \in
    { IF r.inEsc THEN RenderAll(r.term, r.escBuffer, 1) ELSE r.term
      : r \in { PrintRange(PrintStart(t), str, 1, StrLen(str)) } } : TRUE

---------------------------------------------------------------------------
(* Line editor and command registry.                                       *)

RECURSIVE CStrFrom(_, _, _)
\* The C string stored in array buf (of n bytes) from index i: the bytes up
\* to the first NUL.
CStrFrom(buf, i, n) ==
  IF i >= n \/ buf[i] = CH_NUL THEN <<>>
  ELSE <<buf[i]>> \o CStrFrom(buf, i + 1, n)

CStr(buf, n) == CStrFrom(buf, 0, n)

\* The bytes isspace() accepts.
WhiteSpace == {9, 10, 11, 12, 13, 32}

IsSpace(c) == c \in WhiteSpace

\* First position at or after i that holds no white space (Len(s)+1: none).
SkipSpace(s, i) ==
  CHOOSE j \in i..(Len(s) + 1) :
    /\ \A k \in i..(j - 1) : IsSpace(s[k])
    /\ (j = Len(s) + 1 \/ ~IsSpace(s[j]))

\* End (exclusive) of the run of at most width bytes from i that holds no
\* byte of stops and does not pass the end of the string.
RunEnd(s, i, width, stops) ==
  CHOOSE j \in i..(Len(s) + 1) :
    /\ j - i <= width
    /\ \A k \in i..(j - 1) : s[k] \notin stops
    /\ (j = Len(s) + 1 \/ j - i = width \/ s[j] \in stops)

\* sscanf(line, "%63s %63[^\n]", command, arg) on zero-initialised command
\* and arg: the two strings it leaves there.
ScanCommandLine(line) ==
  LET b1 == SkipSpace(line, 1) IN
  IF b1 > Len(line)
  THEN [command |-> <<>>, arg |-> <<>>]
  ELSE
    LET e1 == RunEnd(line, b1, SCAN_WIDTH, WhiteSpace)
        b2 == SkipSpace(line, e1)
        e2 == RunEnd(line, b2, SCAN_WIDTH, {CH_LF})
    IN [command |-> SubSeq(line, b1, e1 - 1), arg |-> SubSeq(line, b2, e2 - 1)]

term_cmdClear(t, arg) == term_clearScreen(t)

term_cmdExit(t, arg) ==
  [term_printString(t, STR_EXITING) EXCEPT !.displayCommand = DISPLAY_COMMAND_CONTINUE]

term_cmdUnknown(t, arg) == term_printString(t, STR_UNKNOWN)

\* commands[i].handler(arg); the call is recorded in invoked.
CallHandler(t, i, arg) ==
  CASE commands[i].handler = "term_cmdClear" ->
         term_cmdClear([t EXCEPT !.invoked = Append(@, <<i, arg>>)], arg)
    [] commands[i].handler = "term_cmdExit" ->
         term_cmdExit([t EXCEPT !.invoked = Append(@, <<i, arg>>)], arg)
    [] commands[i].handler = "term_cmdUnknown" ->
         term_cmdUnknown([t EXCEPT !.invoked = Append(@, <<i, arg>>)], arg)

RECURSIVE DispatchNamed(_, _, _, _, _)
\* First loop over the table, from entry i; found is commandFound so far.
DispatchNamed(t, i, command, arg, found) ==
  IF i > t.numCommands THEN [term |-> t, commandFound |-> found]
  ELSE IF command = commands[i].command
       THEN DispatchNamed(CallHandler(t, i, arg), i + 1, command, arg, TRUE)
       ELSE DispatchNamed(t, i + 1, command, arg, found)

RECURSIVE DispatchFallbackFirst(_, _)
\* A second loop that stops at the first entry whose name is empty.
DispatchFallbackFirst(t, i) ==
  IF i > t.numCommands THEN t
  ELSE IF Len(commands[i].command) = 0
       THEN CallHandler(t, i, CStr(t.inputBuffer, TERM_INPUT_BUFFER_SIZE))
       ELSE DispatchFallbackFirst(t, i + 1)

RECURSIVE DispatchFallback(_, _)
\* Second loop: every entry whose name is empty gets the input buffer.
DispatchFallback(t, i) ==
  IF i > t.numCommands THEN t
  ELSE IF Len(commands[i].command) = 0
       THEN CHOOSE r \in
              { DispatchFallback(
                  CallHandler(s, i, CStr(s.inputBuffer, TERM_INPUT_BUFFER_SIZE)),
                  i + 1)
                : s \in {t} } : TRUE
       ELSE DispatchFallback(t, i + 1)

InputBackspace(t) ==
  CHOOSE r \in
    { IF t1.inputLength > 0
      THEN LET t2 == [t1 EXCEPT !.inputLength = @ - 1,
                                !.inputBuffer[t1.inputLength - 1] = CH_NUL]
           IN IF t1.cursorX = 0 /\ t1.cursorY = 0
              THEN t2    \* already top-left corner: return
              ELSE CHOOSE q \in
                     { [display_termCursor(
                          display_termChar(
                            [u EXCEPT !.screen[u.cursorY * TERM_SCREEN_SIZE_X
                                               + u.cursorX] = CH_NUL],
                            u.cursorX, u.cursorY, CH_SPACE),
                          u.cursorX, u.cursorY)
                          EXCEPT !.prevCursorX = u.cursorX,
                                 !.prevCursorY = u.cursorY]
                       : u \in { IF t1.cursorX = 0
                                 THEN [t2 EXCEPT !.cursorY = @ - 1,
                                                 !.cursorX = TERM_SCREEN_SIZE_X - 1]
                                 ELSE [t2 EXCEPT !.cursorX = @ - 1] } } : TRUE
      ELSE [display_termCursor(t1, t1.cursorX, t1.cursorY)
              EXCEPT !.prevCursorX = t1.cursorX, !.prevCursorY = t1.cursorY]
      : t1 \in { display_termChar(s, s.prevCursorX, s.prevCursorY, CH_SPACE)
                 : s \in {t} } } : TRUE

\* A newline that dispatches and prompts but keeps the line in the buffer.
InputNewlineKeepLine(t) ==
  CHOOSE r \in
    { CHOOSE q \in
        { CHOOSE p \in
            { term_printString(
                (IF ~named.commandFound /\ Len(scan.command) > 0
                 THEN DispatchFallback(named.term, 1)
                 ELSE named.term),
                STR_PROMPT)
              : named \in { DispatchNamed(t1, 1, scan.command, scan.arg, FALSE) } }
            : TRUE
          : scan \in { ScanCommandLine(CStr(t1.inputBuffer, TERM_INPUT_BUFFER_SIZE)) } }
        : TRUE
      : t1 \in { termRenderChar(t, CH_LF) } } : TRUE

InputNewline(t) ==
  CHOOSE r \in
    { CHOOSE q \in
        { CHOOSE p \in
            { term_printString(
                [(IF ~named.commandFound /\ Len(scan.command) > 0
                  THEN DispatchFallback(named.term, 1)
                  ELSE named.term)
                   EXCEPT !.inputBuffer =
                            [i \in 0..(TERM_INPUT_BUFFER_SIZE - 1) |-> CH_NUL],
                          !.inputLength = 0],
                STR_PROMPT)
              : named \in { DispatchNamed(t1, 1, scan.command, scan.arg, FALSE) } }
            : TRUE
          : scan \in { ScanCommandLine(CStr(t1.inputBuffer, TERM_INPUT_BUFFER_SIZE)) } }
        : TRUE
      : t1 \in { termRenderChar(t, CH_LF) } } : TRUE

\* A line editor that fills the line buffer to its last byte.
InputOrdinaryNoRoomForNul(t, chr) ==
  IF t.inputLength < TERM_INPUT_BUFFER_SIZE
  THEN termRenderChar(
         [t EXCEPT !.inputBuffer[t.inputLength] = chr, !.inputLength = @ + 1],
         chr)
  ELSE t

InputOrdinary(t, chr) ==
  IF t.inputLength < TERM_INPUT_BUFFER_SIZE - 1
  THEN termRenderChar(
         [t EXCEPT !.inputBuffer[t.inputLength] = chr, !.inputLength = @ + 1],
         chr)
  ELSE t

termInputChar(t, chr) ==
  IF chr = CH_BS THEN InputBackspace(t)
  ELSE IF chr = CH_LF \/ chr = CH_CR THEN InputNewline(t)
  ELSE InputOrdinary(t, chr)

---------------------------------------------------------------------------
(* Command channel, interrupt handler and main loop.                       *)

VARIABLES protocolBuffers, protocolReadIndex, protocolWriteIndex,
          protocolBufferReady, protocolOverwriteCount,
          memorySharedAddress, memoryRandomTokenAddress,
          memoryRandomTokenSeedAddress, sharedMemory, randState,
          isr, loop,
          published, bufferTag, snapshotTag, observed, overwritten,
          loopCalls, covered, apiCalls

\* The SELECT button watcher of select.c (the flag, the two callbacks, the
\* position of the main core inside its calls, the core-1 worker, the level
\* of the button pin and what happened so far), the calls made to the
\* settings store and the messages the settings commands printed.
VARIABLES core1WaitActive, reset_cb, reset_long_cb, selectMain, core1,
          buttonLevel, selectLog, settingsPuts, settingsCalls, termOutput

\* The parameter resetLong of the call of select_coreWaitPush in progress,
\* between the store of reset_cb and the store of reset_long_cb.
VARIABLES resetLongArg

\* The latch of select_checkPushReset with the position of the main core
\* inside that call and what its calls found so far, and the mounted state of sdcard.c with the calls of
\* sdcard_initFilesystem made so far.
VARIABLES selectPressedLatched, checkPush, pushLog, sdMounted, mountedFsPtr,
          sdCalls

selectVars == <<core1WaitActive, reset_cb, reset_long_cb, selectMain, core1,
                buttonLevel, selectLog>>
settingsVars == <<settingsPuts, settingsCalls, termOutput>>
pollVars == <<selectPressedLatched, checkPush, pushLog>>
sdVars == <<sdMounted, mountedFsPtr, sdCalls>>
callVars == <<resetLongArg>>
moduleVars == <<selectVars, settingsVars, pollVars, sdVars, callVars>>

chanVars == <<protocolBuffers, protocolReadIndex, protocolWriteIndex,
              protocolBufferReady, protocolOverwriteCount>>
memVars == <<memorySharedAddress, memoryRandomTokenAddress,
             memoryRandomTokenSeedAddress, sharedMemory, randState>>
\* History variables: they record what happened.  No statement of the
\* program reads them; only the bounds on the environment do.  apiCalls is
\* the sequence of direct calls of the terminal's entry points, each with its
\* argument and the terminal state it started from.
ghostVars == <<published, bufferTag, snapshotTag, observed, overwritten,
               loopCalls, covered>>
vars == <<termVars, chanVars, memVars, isr, loop, ghostVars, apiCalls,
         moduleVars>>

Fields == {"command_id", "payload_size", "bytes_read", "final_checksum", "payload"}
HeaderFields == {"command_id", "payload_size", "bytes_read", "final_checksum"}

\* A payload array holding bytes, the rest of it left as the decoder had it.
Payload(bytes) ==
  [i \in 0..(MAX_PROTOCOL_PAYLOAD_SIZE - 1) |->
     IF i < Len(bytes) THEN bytes[i + 1] ELSE 170]

\* TransmissionProtocol protocolSnapshot = {0}, and static storage.
ZeroProtocol ==
  [command_id |-> 0, payload_size |-> 0, bytes_read |-> 0, final_checksum |-> 0,
   payload |-> [i \in 0..(MAX_PROTOCOL_PAYLOAD_SIZE - 1) |-> 0]]

NoTag == [f \in Fields |-> 0]

\* The records the protocol decoder hands to the interrupt handler.
InputRecords ==
  { [command_id |-> APP_TERMINAL_START, payload_size |-> 4, bytes_read |-> 4,
     final_checksum |-> 11, payload |-> Payload(<<1, 2, 3, 4>>)],
    [command_id |-> APP_TERMINAL_KEYSTROKE, payload_size |-> 8, bytes_read |-> 8,
     final_checksum |-> 12, payload |-> Payload(<<5, 6, 7, 8, 45, 0, 120, 0>>)],
    [command_id |-> APP_TERMINAL_KEYSTROKE, payload_size |-> 8, bytes_read |-> 8,
     final_checksum |-> 13, payload |-> Payload(<<9, 10, 11, 12, 28, 0, CH_LF, 0>>)],
    [command_id |-> APP_OTHER_COMMAND,
     payload_size |-> MAX_PROTOCOL_PAYLOAD_SIZE + 1,
     bytes_read |-> MAX_PROTOCOL_PAYLOAD_SIZE + 1, final_checksum |-> 15,
     payload |-> [i \in 0..(MAX_PROTOCOL_PAYLOAD_SIZE - 1) |-> 21 + i]] }

\* A 32-bit value is kept as its two 16-bit halves.
U32(n) == [hi |-> n \div 65536, lo |-> n % 65536]

\* A 32-bit little-endian load at byte offset off.
Load32(payload, off) ==
  [lo |-> payload[off] + payload[off + 1] * 256,
   hi |-> payload[off + 2] + payload[off + 3] * 256]

\* The host sends big-endian 16-bit words: the halves come swapped.
SwapWords(v) == [hi |-> v.lo, lo |-> v.hi]

TPROTO_GET_RANDOM_TOKEN(payload) == SwapWords(Load32(payload, 0))

\* The 32-bit parameter that follows the random token.
TPROTO_GET_PAYLOAD_PARAM32(payload, off) == SwapWords(Load32(payload, off))

\* rand() of the C library: the next value of its generator.
RandNext(s) == (s * 5 + 3) % 8

\* time(NULL) at start-up, as srand sees it.
RandSeeds == {2, 5}

TokenAddress == ROM_IN_RAM_START + TERM_RANDOM_TOKEN_OFFSET
SeedAddress == ROM_IN_RAM_START + TERM_RANDON_TOKEN_SEED_OFFSET

IsrIdle == [pc |-> "idle", protocol |-> ZeroProtocol, writeIndex |-> 0,
            size |-> 0, readIndex |-> 0]

LoopIdle == [pc |-> "idle", irqDisabled |-> FALSE,
             protocolSnapshot |-> ZeroProtocol, protocolReady |-> FALSE,
             overwriteCountSnapshot |-> 0, readIndex |-> 0,
             randomToken |-> U32(0)]

\* The main core is in no call of select.c; core 1 runs nothing.
\* core1.caller is the place select_detectStableState was called from, and
\* core1.loaded the callback pointer core 1 read for its NULL test.
MainIdle == "idle"
Core1Off == [pc |-> "off", caller |-> "none", firstSample |-> FALSE,
             press_duration |-> 0, longPressDetected |-> FALSE,
             loaded |-> "NULL"]

\* Core 1 has jumped to an address that holds no function of the program:
\* it executes nothing more until multicore_reset_core1.
Core1Fault == [Core1Off EXCEPT !.pc = "fault"]

\* What happened so far in select.c: which context wrote and which read the
\* flag and the callback pointers, the callbacks invoked, and the number of
\* calls made and of changes of the button level.
SelectLogInit ==
  [flagWriters |-> {}, flagReaders |-> {}, cbWriters |-> {}, cbReaders |-> {},
   fired |-> <<>>, calls |-> 0, toggles |-> 0]

\* The main core is in no call of select_checkPushReset.
CheckPushIdle == [pc |-> "idle", isPressed |-> FALSE, firstSample |-> FALSE]

Init ==
  /\ screen = TermInit.screen
  /\ cursorX = TermInit.cursorX
  /\ cursorY = TermInit.cursorY
  /\ prevCursorX = TermInit.prevCursorX
  /\ prevCursorY = TermInit.prevCursorY
  /\ inputBuffer = TermInit.inputBuffer
  /\ inputLength = TermInit.inputLength
  /\ display = TermInit.display
  /\ menuRowsValid = TermInit.menuRowsValid
  /\ menuPromptValid = TermInit.menuPromptValid
  /\ displayCommand = TermInit.displayCommand
  /\ invoked = TermInit.invoked
  /\ numCommands = TermInit.numCommands
  /\ menuRowSsid = TermInit.menuRowSsid
  /\ menuRowSelect = TermInit.menuRowSelect
  /\ menuRowSd = TermInit.menuRowSd
  /\ menuPromptRow = TermInit.menuPromptRow
  /\ menuPromptCol = TermInit.menuPromptCol
  /\ prevSsidLine = TermInit.prevSsidLine
  /\ prevSelectLine = TermInit.prevSelectLine
  /\ prevSdLine = TermInit.prevSdLine
  /\ protocolBuffers = [i \in 0..1 |-> ZeroProtocol]
  /\ protocolReadIndex = 0
  /\ protocolWriteIndex = 1
  /\ protocolBufferReady = FALSE
  /\ protocolOverwriteCount = 0
  /\ memorySharedAddress = 0
  /\ memoryRandomTokenAddress = 0
  /\ memoryRandomTokenSeedAddress = 0
  /\ sharedMemory = [a \in {TokenAddress, SeedAddress} |-> U32(0)]
  /\ randState = 1
  /\ isr = IsrIdle
  /\ loop = LoopIdle
  /\ published = <<>>
  /\ bufferTag = [i \in 0..1 |-> NoTag]
  /\ snapshotTag = NoTag
  /\ observed = <<>>
  /\ overwritten = {}
  /\ loopCalls = 0
  /\ covered = TRUE
  /\ apiCalls = <<>>
  /\ core1WaitActive = FALSE
  /\ reset_cb = "NULL"
  /\ reset_long_cb = "NULL"
  /\ selectMain = MainIdle
  /\ core1 = Core1Off
  /\ buttonLevel = FALSE
  /\ selectLog = SelectLogInit
  /\ settingsPuts = <<>>
  /\ settingsCalls = <<>>
  /\ termOutput = <<>>
  /\ resetLongArg = "NULL"
  /\ selectPressedLatched = FALSE
  /\ checkPush = CheckPushIdle
  /\ pushLog = <<>>
  /\ sdMounted = FALSE
  /\ mountedFsPtr = "NULL"
  /\ sdCalls = <<>>

Range(q) == {q[i] : i \in 1..Len(q)}

\* A main loop that leaves interrupts enabled while it copies.
IrqNeverMasked == FALSE

\* save_and_disable_interrupts .. restore_interrupts: the interrupt handler
\* cannot start while the main loop holds interrupts disabled.
IrqMasked == loop.irqDisabled

---------------------------------------------------------------------------
(* handle_protocol_command, one step per statement group.  The handler     *)
(* runs in interrupt context: once entered it runs to completion before    *)
(* the main loop takes another step.                                       *)

\* A handler that takes the read slot as its write buffer.
IsrEnterReadSlot(rec, limit) ==
  /\ isr.pc = "idle"
  /\ ~IrqMasked
  /\ Len(published) < limit
  /\ isr' = [pc |-> "copyHeader", protocol |-> rec,
             writeIndex |-> protocolReadIndex, size |-> 0, readIndex |-> 0]
  /\ published' = Append(published, rec)
  /\ overwritten' = IF Len(published) > 0 /\ Len(published) \notin Range(observed)
                    THEN overwritten \cup {Len(published)}
                    ELSE overwritten
  /\ UNCHANGED <<termVars, apiCalls, moduleVars, chanVars, memVars, loop, bufferTag, snapshotTag,
                 observed, loopCalls, covered>>

\* Entry with the decoded record: writeIndex = protocolWriteIndex.
IsrEnter(rec, limit) ==
  /\ isr.pc = "idle"
  /\ ~IrqMasked
  /\ Len(published) < limit
  /\ isr' = [pc |-> "copyHeader", protocol |-> rec,
             writeIndex |-> protocolWriteIndex, size |-> 0, readIndex |-> 0]
  /\ published' = Append(published, rec)
  /\ overwritten' = IF Len(published) > 0 /\ Len(published) \notin Range(observed)
                    THEN overwritten \cup {Len(published)}
                    ELSE overwritten
  /\ UNCHANGED <<termVars, apiCalls, moduleVars, chanVars, memVars, loop, bufferTag, snapshotTag,
                 observed, loopCalls, covered>>

\* The four header fields.
IsrCopyHeader ==
  /\ isr.pc = "copyHeader"
  /\ protocolBuffers' =
       [protocolBuffers EXCEPT ![isr.writeIndex] =
          [@ EXCEPT !.command_id = isr.protocol.command_id,
                    !.payload_size = isr.protocol.payload_size,
                    !.bytes_read = isr.protocol.bytes_read,
                    !.final_checksum = isr.protocol.final_checksum]]
  /\ bufferTag' =
       [bufferTag EXCEPT ![isr.writeIndex] =
          [f \in Fields |-> IF f \in HeaderFields THEN Len(published) ELSE @[f]]]
  /\ isr' = [isr EXCEPT !.pc = "copyPayload"]
  /\ UNCHANGED <<termVars, apiCalls, moduleVars, protocolReadIndex, protocolWriteIndex,
                 protocolBufferReady, protocolOverwriteCount, memVars, loop,
                 published, snapshotTag, observed, overwritten, loopCalls, covered>>

\* A memcpy that stops one byte short.
IsrCopyPayloadShort ==
  /\ isr.pc = "copyPayload"
  /\ LET size == IF isr.protocol.payload_size > MAX_PROTOCOL_PAYLOAD_SIZE
                 THEN MAX_PROTOCOL_PAYLOAD_SIZE
                 ELSE isr.protocol.payload_size
     IN /\ protocolBuffers' =
             [protocolBuffers EXCEPT ![isr.writeIndex].payload =
                [i \in 0..(MAX_PROTOCOL_PAYLOAD_SIZE - 1) |->
                   IF i < size - 1 THEN isr.protocol.payload[i] ELSE @[i]]]
        /\ isr' = [isr EXCEPT !.pc = "countOverwrite", !.size = size]
  /\ bufferTag' = [bufferTag EXCEPT ![isr.writeIndex].payload = Len(published)]
  /\ UNCHANGED <<termVars, apiCalls, moduleVars, protocolReadIndex, protocolWriteIndex,
                 protocolBufferReady, protocolOverwriteCount, memVars, loop,
                 published, snapshotTag, observed, overwritten, loopCalls, covered>>

\* size = min(payload_size, MAX_PROTOCOL_PAYLOAD_SIZE); memcpy of size bytes.
IsrCopyPayload ==
  /\ isr.pc = "copyPayload"
  /\ LET size == IF isr.protocol.payload_size > MAX_PROTOCOL_PAYLOAD_SIZE
                 THEN MAX_PROTOCOL_PAYLOAD_SIZE
                 ELSE isr.protocol.payload_size
     IN /\ protocolBuffers' =
             [protocolBuffers EXCEPT ![isr.writeIndex].payload =
                [i \in 0..(MAX_PROTOCOL_PAYLOAD_SIZE - 1) |->
                   IF i < size THEN isr.protocol.payload[i] ELSE @[i]]]
        /\ isr' = [isr EXCEPT !.pc = "countOverwrite", !.size = size]
  /\ bufferTag' = [bufferTag EXCEPT ![isr.writeIndex].payload = Len(published)]
  /\ UNCHANGED <<termVars, apiCalls, moduleVars, protocolReadIndex, protocolWriteIndex,
                 protocolBufferReady, protocolOverwriteCount, memVars, loop,
                 published, snapshotTag, observed, overwritten, loopCalls, covered>>

\* A handler that counts every publish as an overwrite.
IsrCountEveryPublish ==
  /\ isr.pc = "countOverwrite"
  /\ protocolOverwriteCount' = protocolOverwriteCount + 1
  /\ isr' = [isr EXCEPT !.pc = "readIndex"]
  /\ UNCHANGED <<termVars, apiCalls, moduleVars, protocolBuffers, protocolReadIndex,
                 protocolWriteIndex, protocolBufferReady, memVars, loop,
                 ghostVars>>

\* if (protocolBufferReady) protocolOverwriteCount++ (a uint32_t: it cannot
\* wrap within MaxPublishes publishes).
IsrCountOverwrite ==
  /\ isr.pc = "countOverwrite"
  /\ protocolOverwriteCount' =
       IF protocolBufferReady
       THEN protocolOverwriteCount + 1
       ELSE protocolOverwriteCount
  /\ isr' = [isr EXCEPT !.pc = "readIndex"]
  /\ UNCHANGED <<termVars, apiCalls, moduleVars, protocolBuffers, protocolReadIndex,
                 protocolWriteIndex, protocolBufferReady, memVars, loop,
                 ghostVars>>

\* uint8_t readIndex = protocolReadIndex.
IsrReadIndex ==
  /\ isr.pc = "readIndex"
  /\ isr' = [isr EXCEPT !.pc = "setReadIndex", !.readIndex = protocolReadIndex]
  /\ UNCHANGED <<termVars, apiCalls, moduleVars, chanVars, memVars, loop, ghostVars>>

\* A swap that forgets to point the read index at the slot just written.
IsrKeepReadIndex ==
  /\ isr.pc = "setReadIndex"
  /\ isr' = [isr EXCEPT !.pc = "setWriteIndex"]
  /\ UNCHANGED <<termVars, apiCalls, moduleVars, chanVars, memVars, loop, ghostVars>>

\* protocolReadIndex = writeIndex.
IsrSetReadIndex ==
  /\ isr.pc = "setReadIndex"
  /\ protocolReadIndex' = isr.writeIndex
  /\ isr' = [isr EXCEPT !.pc = "setWriteIndex"]
  /\ UNCHANGED <<termVars, apiCalls, moduleVars, protocolBuffers, protocolWriteIndex,
                 protocolBufferReady, protocolOverwriteCount, memVars, loop,
                 ghostVars>>

\* protocolWriteIndex = readIndex.
IsrSetWriteIndex ==
  /\ isr.pc = "setWriteIndex"
  /\ protocolWriteIndex' = isr.readIndex
  /\ isr' = [isr EXCEPT !.pc = "setReady"]
  /\ UNCHANGED <<termVars, apiCalls, moduleVars, protocolBuffers, protocolReadIndex,
                 protocolBufferReady, protocolOverwriteCount, memVars, loop,
                 ghostVars>>

\* protocolBufferReady = true; return from the interrupt.
IsrSetReady ==
  /\ isr.pc = "setReady"
  /\ protocolBufferReady' = TRUE
  /\ isr' = IsrIdle
  /\ UNCHANGED <<termVars, apiCalls, moduleVars, protocolBuffers, protocolReadIndex,
                 protocolWriteIndex, protocolOverwriteCount, memVars, loop,
                 ghostVars>>

---------------------------------------------------------------------------
(* term_init and term_loop, in the main-loop context.                      *)

\* term_init is the start-up call: it is made once, before the first call of
\* term_loop, or not at all; the interrupt handler may already be installed.
term_init ==
  /\ loop.pc = "idle"
  /\ isr.pc = "idle"
  /\ memorySharedAddress = 0
  /\ loopCalls = 0
  /\ memorySharedAddress' = ROM_IN_RAM_START
  /\ memoryRandomTokenAddress' = ROM_IN_RAM_START + TERM_RANDOM_TOKEN_OFFSET
  /\ memoryRandomTokenSeedAddress' = ROM_IN_RAM_START + TERM_RANDON_TOKEN_SEED_OFFSET
  /\ \E seed \in RandSeeds :
       /\ randState' = RandNext(seed)
       /\ sharedMemory' =
            [sharedMemory EXCEPT
               ![ROM_IN_RAM_START + TERM_RANDON_TOKEN_SEED_OFFSET] =
                  U32(RandNext(seed))]
  /\ \E w1 \in { term_printString(term_clearScreen(Term), STR_WELCOME_1) } :
       \E w2 \in { term_printString(w1, STR_WELCOME_2) } :
         \E w3 \in { term_printString(w2, STR_WELCOME_3) } : SetTerm(w3)
  /\ UNCHANGED <<chanVars, isr, loop, ghostVars, apiCalls, moduleVars>>

\* Entry of term_loop up to save_and_disable_interrupts.
LoopEnter(limit) ==
  /\ loop.pc = "idle"
  /\ isr.pc = "idle"
  /\ loopCalls < limit
  /\ loop' = [LoopIdle EXCEPT !.pc = "check", !.irqDisabled = TRUE]
  /\ loopCalls' = loopCalls + 1
  /\ covered' = (covered /\ Len(published) >= loopCalls + 1)
  /\ invoked' = <<>>
  /\ snapshotTag' = NoTag
  /\ UNCHANGED <<screen, cursorX, cursorY, prevCursorX, prevCursorY,
                 inputBuffer, inputLength, display, menuRowsValid,
                 menuPromptValid, displayCommand, numCommands, menuVars,
                 chanVars,
                 memVars, isr, published, bufferTag, observed, overwritten,
                 apiCalls, moduleVars>>

\* A drain that takes the read slot without looking at the ready flag.
LoopCheckAlways ==
  /\ loop.pc = "check"
  /\ isr.pc = "idle"
  /\ loop' = [loop EXCEPT !.pc = "copyHeader", !.readIndex = protocolReadIndex]
  /\ UNCHANGED <<termVars, apiCalls, moduleVars, chanVars, memVars, isr, ghostVars>>

\* if (protocolBufferReady) { readIndex = protocolReadIndex; ...
LoopCheck ==
  /\ loop.pc = "check"
  /\ isr.pc = "idle"
  /\ loop' = IF protocolBufferReady
             THEN [loop EXCEPT !.pc = "copyHeader", !.readIndex = protocolReadIndex]
             ELSE [loop EXCEPT !.pc = "count"]
  /\ UNCHANGED <<termVars, apiCalls, moduleVars, chanVars, memVars, isr, ghostVars>>

\* protocolSnapshot = protocolBuffers[readIndex]: the header fields ...
LoopCopyHeader ==
  /\ loop.pc = "copyHeader"
  /\ isr.pc = "idle"
  /\ loop' = [loop EXCEPT
                !.pc = "copyPayload",
                !.protocolSnapshot =
                   [@ EXCEPT
                      !.command_id = protocolBuffers[loop.readIndex].command_id,
                      !.payload_size = protocolBuffers[loop.readIndex].payload_size,
                      !.bytes_read = protocolBuffers[loop.readIndex].bytes_read,
                      !.final_checksum = protocolBuffers[loop.readIndex].final_checksum]]
  /\ snapshotTag' = [f \in Fields |->
                       IF f \in HeaderFields THEN bufferTag[loop.readIndex][f]
                       ELSE snapshotTag[f]]
  /\ UNCHANGED <<termVars, apiCalls, moduleVars, chanVars, memVars, isr, published, bufferTag,
                 observed, overwritten, loopCalls, covered>>

\* ... and the payload array.
LoopCopyPayload ==
  /\ loop.pc = "copyPayload"
  /\ isr.pc = "idle"
  /\ loop' = [loop EXCEPT
                !.pc = "clearReady",
                !.protocolSnapshot.payload = protocolBuffers[loop.readIndex].payload]
  /\ snapshotTag' = [snapshotTag EXCEPT !.payload = bufferTag[loop.readIndex].payload]
  /\ UNCHANGED <<termVars, apiCalls, moduleVars, chanVars, memVars, isr, published, bufferTag,
                 observed, overwritten, loopCalls, covered>>

\* A drain that leaves the ready flag set.
LoopKeepReady ==
  /\ loop.pc = "clearReady"
  /\ isr.pc = "idle"
  /\ loop' = [loop EXCEPT !.pc = "count", !.protocolReady = TRUE]
  /\ observed' = Append(observed, snapshotTag.command_id)
  /\ UNCHANGED <<termVars, apiCalls, moduleVars, chanVars, memVars, isr, published, bufferTag,
                 snapshotTag, overwritten, loopCalls, covered>>

\* protocolBufferReady = false; protocolReady = true.
LoopClearReady ==
  /\ loop.pc = "clearReady"
  /\ isr.pc = "idle"
  /\ protocolBufferReady' = FALSE
  /\ loop' = [loop EXCEPT !.pc = "count", !.protocolReady = TRUE]
  /\ observed' = Append(observed, snapshotTag.command_id)
  /\ UNCHANGED <<termVars, apiCalls, moduleVars, protocolBuffers, protocolReadIndex,
                 protocolWriteIndex, protocolOverwriteCount, memVars, isr,
                 published, bufferTag, snapshotTag, overwritten, loopCalls,
                 covered>>

\* overwriteCountSnapshot = protocolOverwriteCount; restore_interrupts.
LoopCount ==
  /\ loop.pc = "count"
  /\ isr.pc = "idle"
  /\ loop' = [loop EXCEPT !.pc = "branch", !.irqDisabled = FALSE,
                          !.overwriteCountSnapshot = protocolOverwriteCount]
  /\ UNCHANGED <<termVars, apiCalls, moduleVars, chanVars, memVars, isr, ghostVars>>

\* A main loop that handles its snapshot whether or not it took a record.
LoopBranchAlways ==
  /\ loop.pc = "branch"
  /\ isr.pc = "idle"
  /\ loop' = [loop EXCEPT
                !.pc = "handle",
                !.randomToken =
                   TPROTO_GET_RANDOM_TOKEN(loop.protocolSnapshot.payload)]
  /\ UNCHANGED <<termVars, apiCalls, moduleVars, chanVars, memVars, isr, ghostVars>>

\* if (protocolReady) { randomToken = TPROTO_GET_RANDOM_TOKEN(payload); ...
\* otherwise term_loop returns.
LoopBranch ==
  /\ loop.pc = "branch"
  /\ isr.pc = "idle"
  /\ IF loop.protocolReady
     THEN /\ loop' = [loop EXCEPT
                        !.pc = "handle",
                        !.randomToken =
                           TPROTO_GET_RANDOM_TOKEN(loop.protocolSnapshot.payload)]
          /\ UNCHANGED snapshotTag
     ELSE /\ loop' = LoopIdle
          /\ snapshotTag' = NoTag
  /\ UNCHANGED <<termVars, apiCalls, moduleVars, chanVars, memVars, isr, published, bufferTag,
                 observed, overwritten, loopCalls, covered>>

\* The display's terminal surface is set up anew; the cells are cleared by
\* the term_clearScreen that follows.
display_termStart(t) == t

\* A dispatcher that feeds the payload of every other command to the line
\* editor as a keystroke.
HandleCommandDefaultKeystroke(t, snapshot) ==
  CASE snapshot.command_id = APP_TERMINAL_START ->
         CHOOSE r \in
           { [termInputChar(hinted, CH_LF)
                EXCEPT !.displayCommand = DISPLAY_COMMAND_TERM]
             : hinted \in
                 { term_printString(term_clearScreen(display_termStart(t)),
                                    STR_HELP_HINT) } } : TRUE
    [] OTHER ->
         termInputChar(
           t,
           TPROTO_GET_PAYLOAD_PARAM32(snapshot.payload, 4).lo
             % (TERM_KEYBOARD_KEY_MASK + 1))

\* switch (protocolSnapshot.command_id)
HandleCommand(t, snapshot) ==
  CASE snapshot.command_id = APP_TERMINAL_START ->
         CHOOSE r \in
           { [termInputChar(hinted, CH_LF)
                EXCEPT !.displayCommand = DISPLAY_COMMAND_TERM]
             : hinted \in
                 { term_printString(term_clearScreen(display_termStart(t)),
                                    STR_HELP_HINT) } } : TRUE
    [] snapshot.command_id = APP_TERMINAL_KEYSTROKE ->
         termInputChar(
           t,
           TPROTO_GET_PAYLOAD_PARAM32(snapshot.payload, 4).lo
             % (TERM_KEYBOARD_KEY_MASK + 1))
    [] OTHER -> t

\* A dispatcher that clears the ready flag again once it has handled its
\* record.
LoopHandleClearReady ==
  /\ loop.pc = "handle"
  /\ isr.pc = "idle"
  /\ \E t \in { HandleCommand(Term, loop.protocolSnapshot) } : SetTerm(t)
  /\ loop' = [loop EXCEPT !.pc = "tokens"]
  /\ protocolBufferReady' = FALSE
  /\ UNCHANGED <<protocolBuffers, protocolReadIndex, protocolWriteIndex,
                 protocolOverwriteCount, memVars, isr, ghostVars, apiCalls,
                 moduleVars>>

LoopHandle ==
  /\ loop.pc = "handle"
  /\ isr.pc = "idle"
  /\ \E t \in { HandleCommand(Term, loop.protocolSnapshot) } : SetTerm(t)
  /\ loop' = [loop EXCEPT !.pc = "tokens"]
  /\ UNCHANGED <<chanVars, memVars, isr, ghostVars, apiCalls, moduleVars>>

\* A handshake that echoes the token and leaves the old seed in place.
LoopTokensOldSeed ==
  /\ loop.pc = "tokens"
  /\ isr.pc = "idle"
  /\ IF memoryRandomTokenAddress # 0
     THEN sharedMemory' =
            [sharedMemory EXCEPT ![memoryRandomTokenAddress] = loop.randomToken]
     ELSE UNCHANGED sharedMemory
  /\ loop' = LoopIdle
  /\ snapshotTag' = NoTag
  /\ UNCHANGED <<termVars, apiCalls, moduleVars, chanVars, memorySharedAddress,
                 memoryRandomTokenAddress, memoryRandomTokenSeedAddress,
                 randState, isr, published, bufferTag, observed, overwritten,
                 loopCalls, covered>>

\* if (memoryRandomTokenAddress != 0) { echo the token; publish a new seed }
\* and term_loop returns.
LoopTokens ==
  /\ loop.pc = "tokens"
  /\ isr.pc = "idle"
  /\ IF memoryRandomTokenAddress # 0
     THEN /\ sharedMemory' =
               [sharedMemory EXCEPT
                  ![memoryRandomTokenAddress] = loop.randomToken,
                  ![memoryRandomTokenSeedAddress] = U32(RandNext(randState))]
          /\ randState' = RandNext(randState)
     ELSE UNCHANGED <<sharedMemory, randState>>
  /\ loop' = LoopIdle
  /\ snapshotTag' = NoTag
  /\ UNCHANGED <<termVars, apiCalls, moduleVars, chanVars, memorySharedAddress,
                 memoryRandomTokenAddress, memoryRandomTokenSeedAddress, isr,
                 published, bufferTag, observed, overwritten, loopCalls, covered>>

Next ==
  \/ \E rec \in InputRecords : IsrEnter(rec, MaxPublishes)
  \/ IsrCopyHeader
  \/ IsrCopyPayload
  \/ IsrCountOverwrite
  \/ IsrReadIndex
  \/ IsrSetReadIndex
  \/ IsrSetWriteIndex
  \/ IsrSetReady
  \/ term_init
  \/ LoopEnter(MaxLoops)
  \/ LoopCheck
  \/ LoopCopyHeader
  \/ LoopCopyPayload
  \/ LoopClearReady
  \/ LoopCount
  \/ LoopBranch
  \/ LoopHandle
  \/ LoopTokens

Spec == Init /\ [][Next]_vars

---------------------------------------------------------------------------
(* A burst of publishes of one keystroke record, for the scenario of ten   *)
(* consecutive publishes.                                                  *)

BurstPublishes == 10
BurstLoops == 2

BurstRecords ==
  { r \in InputRecords : r.final_checksum = 12 }

NextBurst ==
  \/ \E rec \in BurstRecords : IsrEnter(rec, BurstPublishes)
  \/ IsrCopyHeader
  \/ IsrCopyPayload
  \/ IsrCountOverwrite
  \/ IsrReadIndex
  \/ IsrSetReadIndex
  \/ IsrSetWriteIndex
  \/ IsrSetReady
  \/ term_init
  \/ LoopEnter(BurstLoops)
  \/ LoopCheck
  \/ LoopCopyHeader
  \/ LoopCopyPayload
  \/ LoopClearReady
  \/ LoopCount
  \/ LoopBranch
  \/ LoopHandle
  \/ LoopTokens

SpecBurst == Init /\ [][NextBurst]_vars

---------------------------------------------------------------------------
(* The terminal driven directly through its entry points: term_printString,*)
(* term_clearScreen, term_clearInputBuffer and term_markMenuPromptCursor   *)
(* are called by command handlers and by the application, termInputChar is *)
(* what a keystroke command ends in.  The interrupt handler and term_loop  *)
(* stay out of this specification.                                         *)

MaxCalls == 3

\* ESC Y <row> <col>, the two coordinates biased as the host sends them.
EscY(row, col) == <<TERM_ESC_CHAR, 89, row + TERM_POS_Y, col + TERM_POS_X>>

\* The bottom-right cell of the grid.
LastRow == TERM_SCREEN_SIZE_Y - 1
LastCol == TERM_SCREEN_SIZE_X - 1

\* Strings that end inside an escape sequence.
UnfinishedStrings ==
  { <<TERM_ESC_CHAR>>, <<TERM_ESC_CHAR, 89>>,
    <<TERM_ESC_CHAR, 89, 1 + TERM_POS_Y>> }

\* The strings handed to term_printString: a letter, a control byte, the two
\* line ends, every two-byte escape the interpreter knows and one it does not,
\* direct addressing inside and outside the grid, sequences cut short, and
\* sequences followed by an ordinary byte.
PrintStrings ==
  { <<65>>, <<CH_BS>>, <<CH_LF>>, <<CH_CR>> }
    \cup { <<TERM_ESC_CHAR, c>> : c \in {65, 66, 67, 68, 69, 72, 74, 75, 90} }
    \cup { EscY(LastRow, LastCol), EscY(99, 1), EscY(1, TERM_SCREEN_SIZE_X) }
    \cup UnfinishedStrings
    \cup { <<TERM_ESC_CHAR, 90, 65>>, <<TERM_ESC_CHAR, 66, 65>>,
           EscY(1, 1) \o <<65>> }

\* The keys fed to the line editor.
InputKeys == {120, CH_BS, CH_LF}

ApiPrintString(str) ==
  /\ Len(apiCalls) < MaxCalls
  /\ \E t \in { term_printString(Term, str) } : SetTerm(t)
  /\ apiCalls' = Append(apiCalls, [op |-> "term_printString", arg |-> str,
                                   before |-> Term])
  /\ UNCHANGED <<chanVars, memVars, isr, loop, ghostVars, moduleVars>>

ApiInputChar(chr) ==
  /\ Len(apiCalls) < MaxCalls
  /\ \E t \in { termInputChar(Term, chr) } : SetTerm(t)
  /\ apiCalls' = Append(apiCalls, [op |-> "termInputChar", arg |-> <<chr>>,
                                   before |-> Term])
  /\ UNCHANGED <<chanVars, memVars, isr, loop, ghostVars, moduleVars>>

ApiClearScreen ==
  /\ Len(apiCalls) < MaxCalls
  /\ \E t \in { term_clearScreen(Term) } : SetTerm(t)
  /\ apiCalls' = Append(apiCalls, [op |-> "term_clearScreen", arg |-> <<>>,
                                   before |-> Term])
  /\ UNCHANGED <<chanVars, memVars, isr, loop, ghostVars, moduleVars>>

\* term_clearInputBuffer(): the application drops the line typed so far.
ApiClearInputBuffer ==
  /\ Len(apiCalls) < MaxCalls
  /\ \E t \in { term_clearInputBuffer(Term) } : SetTerm(t)
  /\ apiCalls' = Append(apiCalls, [op |-> "term_clearInputBuffer",
                                   arg |-> <<>>, before |-> Term])
  /\ UNCHANGED <<chanVars, memVars, isr, loop, ghostVars, moduleVars>>

\* term_markMenuPromptCursor(): the application has printed its menu prompt.
ApiMarkMenuPromptCursor ==
  /\ Len(apiCalls) < MaxCalls
  /\ \E t \in { term_markMenuPromptCursor(Term) } : SetTerm(t)
  /\ apiCalls' = Append(apiCalls, [op |-> "term_markMenuPromptCursor",
                                   arg |-> <<>>, before |-> Term])
  /\ UNCHANGED <<chanVars, memVars, isr, loop, ghostVars, moduleVars>>

NextTerm ==
  \/ \E str \in PrintStrings : ApiPrintString(str)
  \/ \E chr \in InputKeys : ApiInputChar(chr)
  \/ ApiClearScreen
  \/ ApiClearInputBuffer
  \/ ApiMarkMenuPromptCursor

SpecTerm == Init /\ [][NextTerm]_vars

---------------------------------------------------------------------------
(* The line editor alone: keystrokes fed to termInputChar, after the       *)
(* application has installed its registry with term_setCommands.           *)

MaxKeys == 5

\* Two letters that are command names of the table, one that is not, the
\* blank, backspace and newline.
EditKeys == {120, 99, 97, CH_SPACE, CH_BS, CH_LF}

\* The counts term_setCommands is called with: no entry, and the entries
\* before the first one with an empty name.
RegistrySizes == {0, 2}

\* term_setCommands(commands, count), before the first keystroke.
ApiSetCommands(count) ==
  /\ apiCalls = <<>>
  /\ numCommands = TermInit.numCommands
  /\ SetTerm([Term EXCEPT !.numCommands = count])
  /\ UNCHANGED <<apiCalls, chanVars, memVars, isr, loop, ghostVars, moduleVars>>

EditKey(chr) ==
  /\ Len(apiCalls) < MaxKeys
  /\ \E t \in { termInputChar(Term, chr) } : SetTerm(t)
  /\ apiCalls' = Append(apiCalls, [op |-> "termInputChar", arg |-> <<chr>>,
                                   before |-> Term])
  /\ UNCHANGED <<chanVars, memVars, isr, loop, ghostVars, moduleVars>>

\* term_clearInputBuffer() between two keystrokes.
EditClearInputBuffer ==
  /\ Len(apiCalls) < MaxKeys
  /\ \E t \in { term_clearInputBuffer(Term) } : SetTerm(t)
  /\ apiCalls' = Append(apiCalls, [op |-> "term_clearInputBuffer",
                                   arg |-> <<>>, before |-> Term])
  /\ UNCHANGED <<chanVars, memVars, isr, loop, ghostVars, moduleVars>>

NextEdit ==
  \/ \E count \in RegistrySizes : ApiSetCommands(count)
  \/ \E chr \in EditKeys : EditKey(chr)
  \/ EditClearInputBuffer

SpecEdit == Init /\ [][NextEdit]_vars

---------------------------------------------------------------------------
(* The SELECT button watcher of select.c.  The main core calls             *)
(* select_coreWaitPush, select_coreWaitPushDisable and the two setters of  *)
(* the callbacks; core 1 runs core1_waitPush; the button changes level at  *)
(* any time.  Each step is one access to the flag, to a callback pointer   *)
(* or to the pin, so the two cores interleave between any two accesses.    *)

MaxSelectCalls == 3
MaxToggles == 3

\* Press duration that makes a press long, in units of SELECT_LOOP_DELAY.
SELECT_LONG_RESET == 2
SELECT_LOOP_DELAY == 1

\* The callback pairs select_coreWaitPush is called with.
CallbackPairs == { <<"cbReset", "cbResetLong">>, <<"cbOther", "NULL">> }

\* The log with context ctx added to the set in field f.
Logged(log, f, ctx) == [log EXCEPT ![f] = @ \cup {ctx}]

\* select_coreWaitPush(reset, resetLong), up to its first store:
\* reset_cb = reset;
MainCallWaitPush(reset, resetLong) ==
  /\ selectMain = "idle"
  /\ checkPush.pc = "idle"
  /\ selectLog.calls < MaxSelectCalls
  /\ reset_cb' = reset
  /\ resetLongArg' = resetLong
  /\ selectMain' = "pushStoreLong"
  /\ selectLog' = [Logged(selectLog, "cbWriters", "main") EXCEPT !.calls = @ + 1]
  /\ UNCHANGED <<core1WaitActive, reset_long_cb, core1, buttonLevel>>
  /\ UNCHANGED <<termVars, apiCalls, chanVars, memVars, isr, loop, ghostVars,
                 settingsVars, pollVars, sdVars>>

\* reset_long_cb = resetLong;  The parameter is dead from here on.
MainPushStoreLong ==
  /\ selectMain = "pushStoreLong"
  /\ reset_long_cb' = resetLongArg
  /\ resetLongArg' = "NULL"
  /\ selectMain' = "pushCheck"
  /\ selectLog' = Logged(selectLog, "cbWriters", "main")
  /\ UNCHANGED <<core1WaitActive, reset_cb, core1, buttonLevel>>
  /\ UNCHANGED <<termVars, apiCalls, chanVars, memVars, isr, loop, ghostVars,
                 settingsVars, pollVars, sdVars>>

\* if (core1WaitActive) return;
MainPushCheck ==
  /\ selectMain = "pushCheck"
  /\ selectMain' = IF core1WaitActive THEN "idle" ELSE "pushSet"
  /\ selectLog' = Logged(selectLog, "flagReaders", "main")
  /\ UNCHANGED <<core1WaitActive, reset_cb, reset_long_cb, core1, buttonLevel>>
  /\ UNCHANGED <<termVars, apiCalls, chanVars, memVars, isr, loop, ghostVars,
                 settingsVars, pollVars, sdVars, callVars>>

\* core1WaitActive = true;
MainPushSet ==
  /\ selectMain = "pushSet"
  /\ core1WaitActive' = TRUE
  /\ selectMain' = "pushLaunch"
  /\ selectLog' = Logged(selectLog, "flagWriters", "main")
  /\ UNCHANGED <<reset_cb, reset_long_cb, core1, buttonLevel>>
  /\ UNCHANGED <<termVars, apiCalls, chanVars, memVars, isr, loop, ghostVars,
                 settingsVars, pollVars, sdVars, callVars>>

\* multicore_launch_core1(core1_waitPush) and the return.  core1_waitPush
\* is a function nested in select_coreWaitPush, and core 1 calls the pointer
\* it is handed on its own time.  Where the compiler passes the address of
\* the code, core 1 starts at the top of core1_waitPush; where it passes a
\* trampoline built in the stack frame of select_coreWaitPush, a call made
\* after the return jumps into a frame that is gone.
MainPushLaunch ==
  /\ selectMain = "pushLaunch"
  /\ \E started \in {[Core1Off EXCEPT !.pc = "waitLoop"], Core1Fault} :
       core1' = started
  /\ selectMain' = "idle"
  /\ UNCHANGED <<core1WaitActive, reset_cb, reset_long_cb, buttonLevel, selectLog>>
  /\ UNCHANGED <<termVars, apiCalls, chanVars, memVars, isr, loop, ghostVars,
                 settingsVars, pollVars, sdVars, callVars>>

\* select_coreWaitPushDisable(), up to its test of the flag.
MainCallDisable ==
  /\ selectMain = "idle"
  /\ selectLog.calls < MaxSelectCalls
  /\ selectMain' = IF core1WaitActive THEN "disableClear" ELSE "idle"
  /\ selectLog' = [Logged(selectLog, "flagReaders", "main") EXCEPT !.calls = @ + 1]
  /\ UNCHANGED <<core1WaitActive, reset_cb, reset_long_cb, core1, buttonLevel>>
  /\ UNCHANGED <<termVars, apiCalls, chanVars, memVars, isr, loop, ghostVars,
                 settingsVars, pollVars, sdVars, callVars>>

\* core1WaitActive = false;
MainDisableClear ==
  /\ selectMain = "disableClear"
  /\ core1WaitActive' = FALSE
  /\ selectMain' = "disableReset"
  /\ selectLog' = Logged(selectLog, "flagWriters", "main")
  /\ UNCHANGED <<reset_cb, reset_long_cb, core1, buttonLevel>>
  /\ UNCHANGED <<termVars, apiCalls, chanVars, memVars, isr, loop, ghostVars,
                 settingsVars, pollVars, sdVars, callVars>>

\* multicore_reset_core1(): core 1 stops wherever it is.
MainDisableReset ==
  /\ selectMain = "disableReset"
  /\ core1' = Core1Off
  /\ selectMain' = "idle"
  /\ UNCHANGED <<core1WaitActive, reset_cb, reset_long_cb, buttonLevel, selectLog>>
  /\ UNCHANGED <<termVars, apiCalls, chanVars, memVars, isr, loop, ghostVars,
                 settingsVars, pollVars, sdVars, callVars>>

\* The test of the flag in the while condition of core1_waitPush.
Core1Poll ==
  /\ core1.pc = "waitLoop"
  /\ core1' = IF core1WaitActive
              THEN [core1 EXCEPT !.pc = "sample1", !.caller = "waitLoop"]
              ELSE [core1 EXCEPT !.pc = "afterLoop"]
  /\ selectLog' = Logged(selectLog, "flagReaders", "core1")
  /\ UNCHANGED <<core1WaitActive, reset_cb, reset_long_cb, selectMain, buttonLevel>>
  /\ UNCHANGED <<termVars, apiCalls, chanVars, memVars, isr, loop, ghostVars,
                 settingsVars, pollVars, sdVars, callVars>>

\* select_detectStableState: the first sample, before the debounce delay.
Core1FirstSample ==
  /\ core1.pc = "sample1"
  /\ core1' = [core1 EXCEPT !.pc = "sample2", !.firstSample = buttonLevel]
  /\ UNCHANGED <<core1WaitActive, reset_cb, reset_long_cb, selectMain,
                 buttonLevel, selectLog>>
  /\ UNCHANGED <<termVars, apiCalls, chanVars, memVars, isr, loop, ghostVars,
                 settingsVars, pollVars, sdVars, callVars>>

\* select_detectStableState: the second sample and the return to the
\* caller: the wait loop of core1_waitPush, the entry of select_waitPush or
\* its release loop.
Core1SecondSample ==
  /\ core1.pc = "sample2"
  /\ LET expectedState == core1.caller # "release"
         stable == core1.firstSample = expectedState /\ buttonLevel = expectedState
     IN core1' =
          CASE core1.caller = "waitLoop" ->
                 [core1 EXCEPT !.pc = IF stable THEN "afterLoop" ELSE "waitLoop"]
            [] core1.caller = "entry" ->
                 IF stable
                 THEN [core1 EXCEPT !.pc = "held", !.press_duration = 0,
                                    !.longPressDetected = FALSE]
                 ELSE [core1 EXCEPT !.pc = "clear"]
            [] core1.caller = "release" ->
                 [core1 EXCEPT !.pc = IF stable THEN "cbCheck" ELSE "sample1"]
  /\ UNCHANGED <<core1WaitActive, reset_cb, reset_long_cb, selectMain,
                 buttonLevel, selectLog>>
  /\ UNCHANGED <<termVars, apiCalls, chanVars, memVars, isr, loop, ghostVars,
                 settingsVars, pollVars, sdVars, callVars>>

\* if (!core1WaitActive) return; else select_waitPush() is entered.
Core1AfterLoop ==
  /\ core1.pc = "afterLoop"
  /\ core1' = IF core1WaitActive
              THEN [core1 EXCEPT !.pc = "sample1", !.caller = "entry"]
              ELSE Core1Off
  /\ selectLog' = Logged(selectLog, "flagReaders", "core1")
  /\ UNCHANGED <<core1WaitActive, reset_cb, reset_long_cb, selectMain, buttonLevel>>
  /\ UNCHANGED <<termVars, apiCalls, chanVars, memVars, isr, loop, ghostVars,
                 settingsVars, pollVars, sdVars, callVars>>

\* One test of while (select_detectPush()) in select_waitPush: the read of
\* the pin.  With the button down core 1 enters sleep_ms(SELECT_LOOP_DELAY).
Core1Held ==
  /\ core1.pc = "held"
  /\ core1' =
       IF buttonLevel
       THEN [core1 EXCEPT !.pc = "heldWait"]
       ELSE [core1 EXCEPT !.pc = "sample1", !.caller = "release"]
  /\ UNCHANGED <<core1WaitActive, reset_cb, reset_long_cb, selectMain,
                 buttonLevel, selectLog>>
  /\ UNCHANGED <<termVars, apiCalls, chanVars, memVars, isr, loop, ghostVars,
                 settingsVars, pollVars, sdVars, callVars>>

\* The end of the wait and the rest of the loop body: press_duration and
\* longPressDetected, whatever the pin has become during the wait.
Core1HeldUpdate ==
  /\ core1.pc = "heldWait"
  /\ core1' =
       IF core1.press_duration < SELECT_LONG_RESET
       THEN [core1 EXCEPT
               !.pc = "held",
               !.press_duration = @ + SELECT_LOOP_DELAY,
               !.longPressDetected =
                  (core1.press_duration + SELECT_LOOP_DELAY >= SELECT_LONG_RESET)]
       ELSE [core1 EXCEPT !.pc = "held"]
  /\ UNCHANGED <<core1WaitActive, reset_cb, reset_long_cb, selectMain,
                 buttonLevel, selectLog>>
  /\ UNCHANGED <<termVars, apiCalls, chanVars, memVars, isr, loop, ghostVars,
                 settingsVars, pollVars, sdVars, callVars>>

\* The callback pointer select_waitPush uses for this press.
Core1Callback == IF core1.longPressDetected THEN reset_long_cb ELSE reset_cb

\* if (reset_long_cb != NULL), or if (reset_cb != NULL).
Core1CallbackCheck ==
  /\ core1.pc = "cbCheck"
  /\ core1' = [core1 EXCEPT !.pc = IF Core1Callback # "NULL" THEN "cbCall" ELSE "clear",
                            !.loaded = Core1Callback]
  /\ selectLog' = Logged(selectLog, "cbReaders", "core1")
  /\ UNCHANGED <<core1WaitActive, reset_cb, reset_long_cb, selectMain, buttonLevel>>
  /\ UNCHANGED <<termVars, apiCalls, chanVars, memVars, isr, loop, ghostVars,
                 settingsVars, pollVars, sdVars, callVars>>

\* reset_long_cb(), or reset_cb().  The pointer is not volatile: the build
\* reads it again for the call or calls the value it tested.  A call of NULL
\* is a jump to address 0: no callback runs and core 1 goes no further.
Core1CallbackCall ==
  /\ core1.pc = "cbCall"
  /\ \E called \in {core1.loaded, Core1Callback} :
       IF called = "NULL"
       THEN /\ core1' = Core1Fault
            /\ selectLog' = Logged(selectLog, "cbReaders", "core1")
       ELSE /\ core1' = [core1 EXCEPT !.pc = "clear"]
            /\ selectLog' = [Logged(selectLog, "cbReaders", "core1")
                               EXCEPT !.fired = Append(@, called)]
  /\ UNCHANGED <<core1WaitActive, reset_cb, reset_long_cb, selectMain, buttonLevel>>
  /\ UNCHANGED <<termVars, apiCalls, chanVars, memVars, isr, loop, ghostVars,
                 settingsVars, pollVars, sdVars, callVars>>

\* select_waitPush has returned: core1WaitActive = false; and core1_waitPush
\* returns.
Core1Clear ==
  /\ core1.pc = "clear"
  /\ core1WaitActive' = FALSE
  /\ core1' = Core1Off
  /\ selectLog' = Logged(selectLog, "flagWriters", "core1")
  /\ UNCHANGED <<reset_cb, reset_long_cb, selectMain, buttonLevel>>
  /\ UNCHANGED <<termVars, apiCalls, chanVars, memVars, isr, loop, ghostVars,
                 settingsVars, pollVars, sdVars, callVars>>

\* The SELECT button is pressed or released.
ButtonChange ==
  /\ selectLog.toggles < MaxToggles
  /\ buttonLevel' = ~buttonLevel
  /\ selectLog' = [selectLog EXCEPT !.toggles = @ + 1]
  /\ UNCHANGED <<core1WaitActive, reset_cb, reset_long_cb, selectMain, core1>>
  /\ UNCHANGED <<termVars, apiCalls, chanVars, memVars, isr, loop, ghostVars,
                 settingsVars, pollVars, sdVars, callVars>>

\* select_setResetCallback(reset), called by the main core between its
\* other calls: reset_cb = reset;
SetResetCallback(reset) ==
  /\ selectMain = "idle"
  /\ checkPush.pc = "idle"
  /\ reset_cb # reset
  /\ reset_cb' = reset
  /\ selectLog' = Logged(selectLog, "cbWriters", "main")
  /\ UNCHANGED <<core1WaitActive, reset_long_cb, core1, buttonLevel, selectMain>>
  /\ UNCHANGED <<termVars, apiCalls, chanVars, memVars, isr, loop, ghostVars,
                 settingsVars, pollVars, sdVars, callVars>>

\* select_setLongResetCallback(resetLong): reset_long_cb = resetLong;
SetLongResetCallback(resetLong) ==
  /\ selectMain = "idle"
  /\ checkPush.pc = "idle"
  /\ reset_long_cb # resetLong
  /\ reset_long_cb' = resetLong
  /\ selectLog' = Logged(selectLog, "cbWriters", "main")
  /\ UNCHANGED <<core1WaitActive, reset_cb, core1, buttonLevel, selectMain>>
  /\ UNCHANGED <<termVars, apiCalls, chanVars, memVars, isr, loop, ghostVars,
                 settingsVars, pollVars, sdVars, callVars>>

\* The callbacks the setters are called with.
ResetCallbacks == {"cbReset", "NULL"}
LongResetCallbacks == {"cbResetLong", "NULL"}

NextSelect ==
  \/ \E pair \in CallbackPairs : MainCallWaitPush(pair[1], pair[2])
  \/ MainPushStoreLong
  \/ MainPushCheck
  \/ \E reset \in ResetCallbacks : SetResetCallback(reset)
  \/ \E resetLong \in LongResetCallbacks : SetLongResetCallback(resetLong)
  \/ MainPushSet
  \/ MainPushLaunch
  \/ MainCallDisable
  \/ MainDisableClear
  \/ MainDisableReset
  \/ Core1Poll
  \/ Core1FirstSample
  \/ Core1SecondSample
  \/ Core1AfterLoop
  \/ Core1Held
  \/ Core1HeldUpdate
  \/ Core1CallbackCheck
  \/ Core1CallbackCall
  \/ Core1Clear
  \/ ButtonChange

SpecSelect == Init /\ [][NextSelect]_vars

---------------------------------------------------------------------------
(* The put_int command of the settings commands: term_cmdPutInt called     *)
(* once with an argument string.  Integers are IntBits wide; long is as    *)
(* wide as int on the 32-bit target and twice as wide on an LP64 host, so  *)
(* the width of long is chosen with the call.                              *)

IntBits == 8
SETTINGS_MAX_KEY_LENGTH == 3

INT_MAX == 2 ^ (IntBits - 1) - 1
INT_MIN == -INT_MAX - 1
DEC_BASE == 10

\* The widths long can have.
LongWidths == {IntBits, 2 * IntBits}

CH_PLUS == 43
CH_MINUS == 45
CH_ZERO == 48
IsDigit(c) == c \in CH_ZERO..(CH_ZERO + 9)

RECURSIVE DigitsOf(_)
\* The decimal digits of natural number n.
DigitsOf(n) ==
  IF n < DEC_BASE THEN <<CH_ZERO + n>>
  ELSE Append(DigitsOf(n \div DEC_BASE), CH_ZERO + (n % DEC_BASE))

\* First position at or after i of s that holds no digit (Len(s)+1: none).
DigitsEnd(s, i) ==
  CHOOSE j \in i..(Len(s) + 1) :
    /\ \A k \in i..(j - 1) : IsDigit(s[k])
    /\ (j = Len(s) + 1 \/ ~IsDigit(s[j]))

RECURSIVE Magnitude(_, _, _, _)
\* The number the digits s[i..j-1] denote after acc, cut off at limit.
Magnitude(s, i, j, acc) ==
  IF i >= j THEN acc[1]
  ELSE Magnitude(s, i + 1, j,
         << IF acc[1] * DEC_BASE + (s[i] - CH_ZERO) > acc[2] THEN acc[2]
            ELSE acc[1] * DEC_BASE + (s[i] - CH_ZERO), acc[2] >>)

\* strtol(s, &endPtr, DEC_BASE) with a long of longBits bits: white space,
\* an optional sign, digits; a value out of range is LONG_MAX or LONG_MIN;
\* endPtr (a position of s, from 1) is s itself when there is no digit.
StrToL(s, longBits) ==
  LET b == SkipSpace(s, 1)
      signed == b <= Len(s) /\ s[b] \in {CH_PLUS, CH_MINUS}
      negative == signed /\ s[b] = CH_MINUS
      d == IF signed THEN b + 1 ELSE b
      e == DigitsEnd(s, d)
      LONG_MAX == 2 ^ (longBits - 1) - 1
  IN IF e = d
     THEN [value |-> 0, endPtr |-> 1]
     ELSE [value |-> IF negative
                     THEN -Magnitude(s, d, e, <<0, LONG_MAX + 1>>)
                     ELSE Magnitude(s, d, e, <<0, LONG_MAX>>),
           endPtr |-> e]

\* term_parseKeyAndTail(arg, key, keySize, &tail): ok, the key and the tail.
term_parseKeyAndTail(arg, keySize) ==
  LET b == SkipSpace(arg, 1)
      end == RunEnd(arg, b, Len(arg), WhiteSpace)
      keyLen == end - b
  IN IF b > Len(arg) \/ keyLen = 0 \/ keyLen >= keySize
     THEN [ok |-> FALSE, key |-> <<>>, tail |-> <<>>]
     ELSE [ok |-> TRUE, key |-> SubSeq(arg, b, end - 1),
           tail |-> SubSeq(arg, SkipSpace(arg, end), Len(arg))]

\* The texts of the messages of term_cmdPutInt, up to the conversions.
STR_PUT_INT_INVALID ==
  <<73, 110, 118, 97, 108, 105, 100, 32, 97, 114, 103, 117, 109, 101, 110,
    116, 115, 32, 102, 111, 114, 32, 39, 112, 117, 116, 95, 105, 110, 116,
    39, 32, 99, 111, 109, 109, 97, 110, 100, 46, 10>>
STR_PUT_INT_KEY ==
  <<75, 101, 121, 58, 32>>
STR_PUT_INT_VALUE ==
  <<86, 97, 108, 117, 101, 58, 32>>
STR_PUT_INT_ERROR ==
  <<69, 114, 114, 111, 114, 32, 115, 101, 116, 116, 105, 110, 103, 32,
    105, 110, 116, 101, 103, 101, 114, 32, 118, 97, 108, 117, 101, 32,
    102, 111, 114, 32, 107, 101, 121, 58, 32>>

\* What %d prints for an int.
FormatInt(value) ==
  IF value < 0 THEN <<CH_MINUS>> \o DigitsOf(-value) ELSE DigitsOf(value)

\* The messages of term_cmdPutInt: the format, its argument and the text
\* TPRINTF hands to term_printString.
MSG_INVALID ==
  [format |-> "Invalid arguments for 'put_int' command.\n",
   text |-> STR_PUT_INT_INVALID]
MsgKey(key) ==
  [format |-> "Key: %s\n", arg |-> key,
   text |-> STR_PUT_INT_KEY \o key \o <<CH_LF>>]
MsgValue(value) ==
  [format |-> "Value: %d\n", arg |-> value,
   text |-> STR_PUT_INT_VALUE \o FormatInt(value) \o <<CH_LF>>]
MsgError(key) ==
  [format |-> "Error setting integer value for key: %s\n", arg |-> key,
   text |-> STR_PUT_INT_ERROR \o key \o <<CH_LF>>]

RECURSIVE PrintMessages(_, _)
\* TPRINTF of each message in turn: term_printString of its text.
PrintMessages(t, messages) ==
  IF messages = <<>> THEN t
  ELSE CHOOSE r \in { PrintMessages(s, Tail(messages)) :
                        s \in { term_printString(t, messages[1].text) } } : TRUE

\* term_cmdPutInt(arg) where long has longBits bits and settings_put_integer
\* returns err: the calls made to the store and the messages printed.
term_cmdPutInt(arg, longBits, err) ==
  LET parsed == term_parseKeyAndTail(arg, SETTINGS_MAX_KEY_LENGTH)
      valueStr == parsed.tail
  IN IF parsed.ok /\ valueStr # <<>>
     THEN LET conv == StrToL(valueStr, longBits)
              endPtr == SkipSpace(valueStr, conv.endPtr)
          IN IF \/ endPtr = 1
                \/ endPtr <= Len(valueStr)
                \/ conv.value < INT_MIN
                \/ conv.value > INT_MAX
             THEN [puts |-> <<>>, output |-> <<MSG_INVALID>>]
             ELSE [puts |-> << <<parsed.key, conv.value>> >>,
                   output |-> IF err = 0
                              THEN <<MsgKey(parsed.key), MsgValue(conv.value)>>
                              ELSE <<MsgError(parsed.key)>>]
     ELSE [puts |-> <<>>, output |-> <<MSG_INVALID>>]

\* Keys: below the maximum length (one and two bytes) and at it.
PutKeys == { [i \in 1..n |-> 107] : n \in 1..SETTINGS_MAX_KEY_LENGTH }

\* Numbers: small, the largest int, the first beyond it, and one beyond the
\* widest long.
PutNumbers == {0, 5, INT_MAX, INT_MAX + 1, INT_MAX + 2, 2 ^ (2 * IntBits)}

\* Value tokens: the numbers, unsigned and signed, then a missing value,
\* a sign alone, a word, and digits followed by a letter.
PutValues ==
  { sign \o DigitsOf(n) : sign \in {<<>>, <<CH_PLUS>>, <<CH_MINUS>>}, n \in PutNumbers }
    \cup { <<>>, <<CH_MINUS>>, <<120>>, <<53, 120>> }

\* What follows the value: nothing, a blank, or a blank and a second token.
PutTrailers == { <<>>, <<CH_SPACE>>, <<CH_SPACE, 54>> }

\* The argument strings of put_int: key, blank, value and trailer, with and
\* without a leading blank, and the strings without a key.
PutIntArgs ==
  { lead \o key \o <<CH_SPACE>> \o value \o trailer :
      lead \in {<<>>, <<CH_SPACE>>}, key \in PutKeys,
      value \in PutValues, trailer \in PutTrailers }
    \cup PutKeys \cup { <<>>, <<CH_SPACE>> }

\* settings_put_integer returns 0 or an error code.
PutResults == {0, -1}

ApiPutInt(arg) ==
  /\ apiCalls = <<>>
  /\ \E longBits \in LongWidths : \E err \in PutResults :
       \E r \in { term_cmdPutInt(arg, longBits, err) } :
         /\ settingsPuts' = settingsPuts \o r.puts
         /\ termOutput' = termOutput \o r.output
         /\ \E t \in { PrintMessages(Term, r.output) } : SetTerm(t)
         /\ apiCalls' = Append(apiCalls, [op |-> "term_cmdPutInt", arg |-> arg,
                                          longBits |-> longBits])
  /\ UNCHANGED <<chanVars, memVars, isr, loop, ghostVars, selectVars,
                 pollVars, sdVars, callVars, settingsCalls>>

NextPutInt == \E arg \in PutIntArgs : ApiPutInt(arg)

SpecPutInt == Init /\ [][NextPutInt]_vars

---------------------------------------------------------------------------
(* Properties of the command channel.                                      *)

\* The main loop holds a complete snapshot of a slot.
SnapshotTaken ==
  \/ loop.pc = "clearReady"
  \/ (loop.pc \in {"count", "branch", "handle", "tokens"} /\ loop.protocolReady)

\* Sequence number of the last record the main loop took (0: none yet).
LastObserved == IF observed = <<>> THEN 0 ELSE observed[Len(observed)]

\* C1: latest wins.  Whenever a drain found the ready flag set, the record it
\* has snapshot, still inside the critical section, is the one written by the
\* most recent publish: every field of the snapshot carries the sequence
\* number of the last publish, never an older one.
C1_LatestWins ==
  (loop.pc \in {"clearReady", "count"} /\ SnapshotTaken)
    => \A f \in Fields : snapshotTag[f] = Len(published)

\* A drain takes the third record after the second one was published and
\* never drained.
C1_Witness ==
  /\ loop.pc = "clearReady"
  /\ Len(published) = 3
  /\ 2 \in overwritten
  /\ snapshotTag.command_id = 3

\* C2: no torn reads.  Every snapshot the consumer holds has its four header
\* fields and its payload from one single publish, and the interrupt handler
\* is never in the middle of a publish while the consumer is inside its
\* critical section, copying a slot.
C2_NoTornReads ==
  /\ SnapshotTaken =>
       /\ snapshotTag.command_id >= 1
       /\ \A f \in Fields : snapshotTag[f] = snapshotTag.command_id
  /\ loop.pc \in {"check", "copyHeader", "copyPayload", "clearReady", "count"}
       => isr.pc = "idle"

\* The consumer holds a whole snapshot of the second record while the slot
\* it did not read still holds the first one.
C2_Witness ==
  /\ loop.pc = "count"
  /\ loop.protocolReady
  /\ snapshotTag.payload = 2
  /\ bufferTag[1 - loop.readIndex].payload = 1

\* C3: the overwrite counter.  Outside the few statements of a publish that
\* precede its increment, protocolOverwriteCount is the number of records
\* that were published over an undrained one; a drain never changes it.  As
\* long as nothing was drained, n >= 1 completed publishes leave the ready
\* flag set and a counter of n - 1 (ten publishes: 9); once the latest record
\* has been drained the flag is clear, so the next drain returns nothing.
C3_OverwriteCount ==
  /\ isr.pc \notin {"copyHeader", "copyPayload", "countOverwrite"}
       => protocolOverwriteCount = Cardinality(overwritten)
  /\ (isr.pc = "idle" /\ observed = <<>> /\ Len(published) >= 1)
       => /\ protocolBufferReady
          /\ protocolOverwriteCount = Len(published) - 1
  /\ (isr.pc = "idle" /\ loop.pc # "clearReady" /\ observed # <<>>
        /\ LastObserved = Len(published))
       => ~protocolBufferReady
  /\ (loop.pc = "count" /\ ~loop.protocolReady)
       => (LastObserved = Len(published) /\ snapshotTag = NoTag)

\* Ten publishes, then a drain that takes the tenth record, then a second
\* drain that finds nothing: the counter is 9.
C3_Witness ==
  /\ Len(published) = 10
  /\ observed = <<10>>
  /\ protocolOverwriteCount = 9
  /\ loopCalls = 2
  /\ loop.pc = "branch"
  /\ ~loop.protocolReady


\* C4: a term_loop call (a drain) yields a record exactly when a publish has
\* completed since the last record was taken.  The records observed are
\* never more than the calls made nor than the records published; between
\* calls the ready flag is set exactly when the latest published record has
\* not been taken; a call that ends its critical section with a record has
\* taken the latest one, and one that ends it without found none pending.
C4_DrainsYieldPendingRecords ==
  /\ Len(observed) <= loopCalls
  /\ Len(observed) <= Len(published)
  /\ (isr.pc = "idle" /\ loop.pc = "idle")
       => (protocolBufferReady <=> LastObserved < Len(published))
  /\ loop.pc = "count"
       => /\ LastObserved = Len(published)
          /\ loop.protocolReady <=> (snapshotTag.command_id = LastObserved
                                      /\ LastObserved >= 1)

\* Two publishes, then two term_loop calls: the first takes the second
\* record, the second finds nothing.
C4_Witness ==
  /\ Len(published) = 2
  /\ loopCalls = 2
  /\ covered
  /\ observed = <<2>>
  /\ loop.pc = "count"
  /\ ~loop.protocolReady

\* C4 as stated: N publishes and M <= N term_loop calls, every call made
\* after at least as many publishes as calls, leave exactly M records
\* observed once the calls have returned.
C4_EveryDrainYields ==
  (isr.pc = "idle" /\ loop.pc = "idle" /\ covered /\ loopCalls <= Len(published))
    => Len(observed) = loopCalls

\* C5: delivery follows publish order, at most once.  The records taken by
\* successive drains have strictly increasing publish numbers, a record
\* published over before it was taken is never taken, and the record being
\* dispatched (its keystroke fed to the line editor, its token echoed) is the
\* one the drain of this call took.
C5_OrderedAtMostOnce ==
  /\ \A i \in 1..Len(observed) : observed[i] \in 1..Len(published)
  /\ \A i \in 1..(Len(observed) - 1) : observed[i] < observed[i + 1]
  /\ overwritten \cap Range(observed) = {}
  /\ loop.pc \in {"handle", "tokens"}
       => /\ snapshotTag.command_id = LastObserved
          /\ LastObserved \notin overwritten
          /\ loop.protocolSnapshot.command_id
               = published[LastObserved].command_id
          /\ loop.randomToken
               = TPROTO_GET_RANDOM_TOKEN(published[LastObserved].payload)

\* The first record was dispatched, the second was published over by the
\* third, and the third is being dispatched.
C5_Witness ==
  /\ observed = <<1, 3>>
  /\ overwritten = {2}
  /\ loop.pc = "tokens"

\* C6: round trip.  A snapshot of a record published with payload_size S at
\* most MAX_PROTOCOL_PAYLOAD_SIZE has that record's command_id, its
\* payload_size and its first S payload bytes.
C6_RoundTrip ==
  (SnapshotTaken /\ snapshotTag.command_id >= 1
     /\ published[snapshotTag.command_id].payload_size <= MAX_PROTOCOL_PAYLOAD_SIZE)
    => /\ loop.protocolSnapshot.command_id
            = published[snapshotTag.command_id].command_id
       /\ loop.protocolSnapshot.payload_size
            = published[snapshotTag.command_id].payload_size
       /\ \A i \in 0..(published[snapshotTag.command_id].payload_size - 1) :
            loop.protocolSnapshot.payload[i]
              = published[snapshotTag.command_id].payload[i]

\* The start record (4 payload bytes) was drained from a slot that held the
\* oversized record before.
C6_Witness ==
  /\ loop.pc = "count"
  /\ loop.protocolReady
  /\ Len(published) = 3
  /\ published[1].payload_size > MAX_PROTOCOL_PAYLOAD_SIZE
  /\ published[3].payload_size = 4
  /\ snapshotTag.command_id = 3
  /\ loop.protocolSnapshot.payload[4] = published[1].payload[4]

\* C7: clamping.  A snapshot of a record published with payload_size above
\* MAX_PROTOCOL_PAYLOAD_SIZE has payload_size equal to
\* MAX_PROTOCOL_PAYLOAD_SIZE and the record's first MAX_PROTOCOL_PAYLOAD_SIZE
\* payload bytes; no snapshot has a payload_size above the maximum.
C7_PayloadSizeClamped ==
  /\ (SnapshotTaken /\ snapshotTag.command_id >= 1
        /\ published[snapshotTag.command_id].payload_size > MAX_PROTOCOL_PAYLOAD_SIZE)
       => /\ loop.protocolSnapshot.payload_size = MAX_PROTOCOL_PAYLOAD_SIZE
          /\ \A i \in 0..(MAX_PROTOCOL_PAYLOAD_SIZE - 1) :
               loop.protocolSnapshot.payload[i]
                 = published[snapshotTag.command_id].payload[i]
  /\ loop.protocolSnapshot.payload_size <= MAX_PROTOCOL_PAYLOAD_SIZE

\* The slot indices outside the two index assignments of a publish.
IndicesDistinct ==
  /\ protocolReadIndex \in {0, 1}
  /\ protocolWriteIndex \in {0, 1}
  /\ protocolReadIndex # protocolWriteIndex

\* C8: slot roles.  Both indices are always 0 or 1, and they are distinct
\* except between the two index assignments of a publish, where both name
\* the slot just written; the main loop, which runs only between publishes,
\* always sees them distinct.  A publish changes only the slot that was the
\* write slot when it started (never the read slot), and the consumer copies
\* from the read slot.
C8_SlotRoles ==
  /\ [](/\ protocolReadIndex \in {0, 1}
        /\ protocolWriteIndex \in {0, 1}
        /\ isr.pc # "setWriteIndex" => IndicesDistinct
        /\ isr.pc = "setWriteIndex"
             => (protocolReadIndex = isr.writeIndex
                 /\ protocolWriteIndex = isr.writeIndex)
        /\ isr.pc \in {"copyHeader", "copyPayload", "countOverwrite",
                       "readIndex", "setReadIndex"}
             => isr.writeIndex = protocolWriteIndex
        /\ loop.pc \in {"copyHeader", "copyPayload"}
             => loop.readIndex = protocolReadIndex)
  /\ [][\A i \in 0..1 :
          protocolBuffers'[i] # protocolBuffers[i]
            => /\ isr.pc \in {"copyHeader", "copyPayload"}
               /\ i = protocolWriteIndex
               /\ i # protocolReadIndex]_vars

\* A second publish has written its slot and assigned the read index, and
\* has not assigned the write index yet.
C8_Witness ==
  /\ isr.pc = "setWriteIndex"
  /\ Len(published) = 2
  /\ bufferTag[isr.writeIndex].payload = 2
  /\ protocolReadIndex = protocolWriteIndex

\* C8 as stated: the two indices are distinct values in {0, 1} in every
\* reachable state, between the steps of a publish included.
C8_IndicesAlwaysDistinct == IndicesDistinct

\* A step of term_loop in a call that has not taken a record: the entry, the
\* test that finds the ready flag clear, and what follows it.
EmptyPollStep ==
  /\ loop' # loop
  /\ \/ loop.pc = "idle"
     \/ (loop.pc = "check" /\ ~protocolBufferReady)
     \/ (loop.pc \in {"count", "branch"} /\ ~loop.protocolReady)

\* C9: a term_loop call that finds the ready flag clear changes nothing and
\* returns: no step of it changes the ready flag, the slot indices, the
\* slots, the overwrite counter, the screen grid and display, the cursor, the
\* line buffer or the shared-memory words, it invokes no registry handler,
\* and after the critical section it returns without dispatching.
C9_EmptyPollChangesNothing ==
  [][EmptyPollStep =>
       /\ UNCHANGED <<chanVars, memVars>>
       /\ UNCHANGED <<screen, cursorX, cursorY, prevCursorX, prevCursorY,
                      inputBuffer, inputLength, display, menuRowsValid,
                      menuPromptValid, displayCommand, menuVars>>
       /\ invoked' = <<>>
       /\ ~loop'.protocolReady
       /\ loop.pc = "check" => loop'.pc = "count"
       /\ loop.pc = "branch" => loop' = LoopIdle]_vars

\* After term_init and a first record, a term_loop call found the ready
\* flag clear and is about to return.
C9_Witness ==
  /\ loop.pc = "branch"
  /\ ~loop.protocolReady
  /\ memorySharedAddress # 0
  /\ observed # <<>>
  /\ loopCalls = 2

\* C10: token handshake.  With the shared-memory addresses set, the step
\* that ends the dispatch of a drained record, whatever its command_id,
\* writes the token held in the first 4 payload bytes of that record to the
\* echoed-token word and the next value of the generator to the seed word.
\* The shared words change in no other step but term_init, and the writes
\* come after the handling of the command: a drained record is handled
\* first, the handling leaves the words alone, and the token step follows.
C10_TokenHandshake ==
  [][/\ (loop.pc = "tokens" /\ loop' # loop /\ memoryRandomTokenAddress # 0)
          => /\ sharedMemory'[memoryRandomTokenAddress]
                  = TPROTO_GET_RANDOM_TOKEN(published[LastObserved].payload)
             /\ sharedMemory'[memoryRandomTokenSeedAddress]
                  = U32(RandNext(randState))
             /\ randState' = RandNext(randState)
             /\ loop' = LoopIdle
     /\ sharedMemory' # sharedMemory
          => \/ loop.pc = "tokens"
             \/ (memorySharedAddress = 0 /\ memorySharedAddress' # 0)
     /\ (loop.pc = "branch" /\ loop.protocolReady /\ loop' # loop)
          => loop'.pc = "handle"
     /\ (loop.pc = "handle" /\ loop' # loop)
          => (loop'.pc = "tokens" /\ UNCHANGED sharedMemory)]_vars

\* After term_init, a record that is neither start nor keystroke was drained
\* and its token stands in the echoed-token word.
C10_Witness ==
  /\ loop.pc = "idle"
  /\ memoryRandomTokenAddress # 0
  /\ LastObserved >= 1
  /\ published[LastObserved].command_id = APP_OTHER_COMMAND
  /\ sharedMemory[memoryRandomTokenAddress]
       = TPROTO_GET_RANDOM_TOKEN(published[LastObserved].payload)
  /\ sharedMemory[memoryRandomTokenAddress] # U32(0)

---------------------------------------------------------------------------
(* Properties of the command dispatcher.                                   *)

\* C11: a drained record whose command_id is neither APP_TERMINAL_START nor
\* APP_TERMINAL_KEYSTROKE is a no-op for the terminal.  The step that handles
\* it leaves the screen grid, the cursor, the previous-cursor position, the
\* line buffer and its length as they were and invokes no registry handler.
C11_UnknownCommandIsNoOp ==
  [][(/\ loop.pc = "handle"
      /\ loop' # loop
      /\ loop.protocolSnapshot.command_id
           \notin {APP_TERMINAL_START, APP_TERMINAL_KEYSTROKE})
       => /\ UNCHANGED <<screen, cursorX, cursorY, prevCursorX, prevCursorY,
                         inputBuffer, inputLength>>
          /\ invoked = <<>>
          /\ invoked' = <<>>
          /\ loop'.pc = "tokens"]_vars

\* A record with another command_id was handled while the line editor held
\* a typed character.
C11_Witness ==
  /\ loop.pc = "tokens"
  /\ loop.protocolSnapshot.command_id = APP_OTHER_COMMAND
  /\ inputLength = 1
  /\ inputBuffer[0] = 120
  /\ invoked = <<>>

\* The cells of the grid row the cursor is on, up to the cursor.
RowBeforeCursor ==
  [i \in 1..cursorX |-> screen[cursorY * TERM_SCREEN_SIZE_X + i - 1]]

\* C12 as stated: once the start-terminal command has been handled, whatever
\* the line editor held when it arrived, no registry handler was invoked,
\* the line buffer is empty and the prompt is the last thing rendered.
C12_StartSubmitsBlankLine ==
  (loop.pc = "tokens" /\ loop.protocolSnapshot.command_id = APP_TERMINAL_START)
    => /\ invoked = <<>>
       /\ inputLength = 0
       /\ \A i \in 0..(TERM_INPUT_BUFFER_SIZE - 1) : inputBuffer[i] = CH_NUL
       /\ RowBeforeCursor = STR_PROMPT
       /\ displayCommand = DISPLAY_COMMAND_TERM

---------------------------------------------------------------------------
(* Properties of the terminal emulator, over the direct calls of its entry *)
(* points.                                                                 *)

\* The last direct call and the terminal state it started from.
LastCall == apiCalls[Len(apiCalls)]
Before == LastCall.before

\* The last call was term_printString(str).
Printed(str) ==
  /\ apiCalls # <<>>
  /\ LastCall.op = "term_printString"
  /\ LastCall.arg = str

\* The last call wrote the one character chr at the cursor: a one-byte
\* string, or a key the line editor had room for.
Wrote(chr) ==
  /\ apiCalls # <<>>
  /\ \/ LastCall.op = "term_printString" /\ LastCall.arg = <<chr>>
     \/ /\ LastCall.op = "termInputChar"
        /\ LastCall.arg = <<chr>>
        /\ Before.inputLength < TERM_INPUT_BUFFER_SIZE - 1

\* Index of cell (x, y) in the grid and in the display.
CellIndex(x, y) == y * TERM_SCREEN_SIZE_X + x

\* grid is old scrolled up by one row: row r holds the old row r + 1.
RowsMovedUp(grid, old) ==
  \A r \in 0..(LastRow - 1) : \A c \in 0..LastCol :
    grid[CellIndex(c, r)] = old[CellIndex(c, r + 1)]

\* C13: cursor bounds.  After any sequence of term_printString calls,
\* keystrokes fed to the line editor and term_clearScreen calls, the cursor
\* and the previous-cursor position are inside the grid, so the cells the
\* next call reads or writes through them exist in the grid and on the
\* display, and the grid keeps its size.
C13_CursorInBounds ==
  /\ cursorX \in 0..(TERM_SCREEN_SIZE_X - 1)
  /\ cursorY \in 0..(TERM_SCREEN_SIZE_Y - 1)
  /\ prevCursorX \in 0..(TERM_SCREEN_SIZE_X - 1)
  /\ prevCursorY \in 0..(TERM_SCREEN_SIZE_Y - 1)
  /\ DOMAIN screen = 0..(TERM_SCREEN_SIZE - 1)
  /\ CellIndex(cursorX, cursorY) \in DOMAIN screen
  /\ CellIndex(prevCursorX, prevCursorY) \in DOMAIN screen
  /\ CellIndex(cursorX, cursorY) \in DOMAIN display
  /\ CellIndex(prevCursorX, prevCursorY) \in DOMAIN display

\* A key typed at the bottom-right cell scrolled the grid, and a backspace
\* at column 0 took the cursor back to the last column of the row above.
C13_Witness ==
  /\ Len(apiCalls) = 3
  /\ apiCalls[2].op = "termInputChar"
  /\ apiCalls[2].before.cursorX = LastCol
  /\ apiCalls[2].before.cursorY = LastRow
  /\ apiCalls[3].op = "termInputChar"
  /\ apiCalls[3].arg = <<CH_BS>>
  /\ apiCalls[3].before.cursorX = 0
  /\ cursorX = LastCol
  /\ cursorY = LastRow - 1

\* C14: wrap and scroll.  A character written at the last column is stored
\* at the cursor cell and the cursor moves to column 0 of the next row.  On
\* the last row the grid, with the character in it, scrolls up by one row
\* (row r takes the old row r + 1, the old top row is lost), the new bottom
\* row is blank, the cursor is at column 0 of the last row, and the display
\* rows are moved up by one row in the same way with a blank bottom row that
\* holds the cursor block.
C14_WrapAndScroll ==
  \A chr \in {65, 120} :
    (Wrote(chr) /\ Before.cursorX = LastCol)
      => LET written == [Before.screen EXCEPT
                           ![CellIndex(Before.cursorX, Before.cursorY)] = chr]
             shown == [[Before.display EXCEPT
                          ![CellIndex(Before.prevCursorX, Before.prevCursorY)]
                             = CH_SPACE]
                          EXCEPT ![CellIndex(Before.cursorX, Before.cursorY)] = chr]
         IN IF Before.cursorY < LastRow
            THEN /\ screen = written
                 /\ cursorX = 0
                 /\ cursorY = Before.cursorY + 1
            ELSE /\ RowsMovedUp(screen, written)
                 /\ \A c \in 0..LastCol : screen[CellIndex(c, LastRow)] = CH_NUL
                 /\ cursorX = 0
                 /\ cursorY = LastRow
                 /\ RowsMovedUp(display, shown)
                 /\ display[CellIndex(0, LastRow)] = CURSOR_GLYPH
                 /\ \A c \in 1..LastCol : display[CellIndex(c, LastRow)] = CH_SPACE

\* A letter written at the bottom-right cell of a grid that held a letter in
\* its top row: the top row is gone and the letter is in the row above the
\* last.
C14_Witness ==
  /\ Len(apiCalls) = 3
  /\ Printed(<<65>>)
  /\ Before.cursorX = LastCol
  /\ Before.cursorY = LastRow
  /\ Before.screen[CellIndex(0, 0)] = 65
  /\ screen[CellIndex(0, 0)] = CH_NUL
  /\ screen[CellIndex(LastCol, LastRow - 1)] = 65
  /\ cursorX = 0
  /\ cursorY = LastRow

\* C15: in NORMAL mode '\n' and '\r' each move the cursor to column 0 of the
\* next row and write no grid cell; on the last row the grid scrolls up by
\* one row instead and the cursor stays on the last row.  Every other byte
\* but ESC (a letter, a control byte such as backspace) is written at the
\* cursor cell and the cursor advances by one column, to column 0 from the
\* last column.
C15_LineEndsAndOrdinaryBytes ==
  /\ \A nl \in {CH_LF, CH_CR} :
       Printed(<<nl>>)
         => /\ cursorX = 0
            /\ IF Before.cursorY < LastRow
               THEN /\ cursorY = Before.cursorY + 1
                    /\ screen = Before.screen
               ELSE /\ cursorY = LastRow
                    /\ RowsMovedUp(screen, Before.screen)
                    /\ \A c \in 0..LastCol : screen[CellIndex(c, LastRow)] = CH_NUL
  /\ \A chr \in {65, CH_BS} :
       Printed(<<chr>>)
         => IF Before.cursorX < LastCol
            THEN /\ screen = [Before.screen EXCEPT
                                ![CellIndex(Before.cursorX, Before.cursorY)] = chr]
                 /\ cursorX = Before.cursorX + 1
                 /\ cursorY = Before.cursorY
            ELSE /\ cursorX = 0
                 /\ \E i \in DOMAIN screen : screen[i] = chr

\* A '\r' printed on the last row of a grid that held a letter in its top
\* row.
C15_Witness ==
  /\ Len(apiCalls) = 3
  /\ Printed(<<CH_CR>>)
  /\ Before.cursorY = LastRow
  /\ Before.cursorX > 0
  /\ Before.screen[CellIndex(0, 0)] = 65
  /\ screen[CellIndex(0, 0)] = CH_NUL
  /\ cursorX = 0
  /\ cursorY = LastRow

\* The two-byte and four-byte escape sequences among the strings printed.
CompleteEscapes ==
  { str \in PrintStrings \ UnfinishedStrings :
      /\ str[1] = TERM_ESC_CHAR
      /\ Len(str) = (IF str[2] = 89 THEN 4 ELSE 2) }

\* The grid is old with chr in cell (x, y) and the cursor is right of it.
WrittenAt(old, x, y, chr) ==
  /\ screen = [old EXCEPT ![CellIndex(x, y)] = chr]
  /\ cursorX = x + 1
  /\ cursorY = y

\* C16: the escape state machine of term_printString.  After ESC one more
\* byte is consumed when it is not 'Y' and three more when it is; the
\* sequence is interpreted, none of its bytes is written to the grid, and
\* the byte that follows is rendered in NORMAL mode: a letter after ESC Z
\* lands at the cursor as if printed alone, a letter after ESC B lands one
\* row down, a letter after ESC Y <1> <1> lands in cell (1, 1).  ESC with an
\* unknown command letter changes neither grid nor cursor.
C16_EscapeStateMachine ==
  /\ \A str \in CompleteEscapes :
       Printed(str)
         => \A i \in DOMAIN screen : screen[i] \in {Before.screen[i], CH_NUL}
  /\ Printed(<<TERM_ESC_CHAR, 90>>)
       => /\ screen = Before.screen
          /\ display = Before.display
          /\ cursorX = Before.cursorX
          /\ cursorY = Before.cursorY
          /\ prevCursorX = Before.prevCursorX
          /\ prevCursorY = Before.prevCursorY
  /\ Printed(<<TERM_ESC_CHAR, 90, 65>>)
       => /\ screen = termRenderChar(Before, 65).screen
          /\ cursorX = termRenderChar(Before, 65).cursorX
          /\ cursorY = termRenderChar(Before, 65).cursorY
          /\ Before.cursorX < LastCol
               => WrittenAt(Before.screen, Before.cursorX, Before.cursorY, 65)
  /\ (Printed(<<TERM_ESC_CHAR, 66, 65>>) /\ Before.cursorX < LastCol)
       => WrittenAt(Before.screen, Before.cursorX,
                    IF Before.cursorY < LastRow
                    THEN Before.cursorY + 1 ELSE Before.cursorY,
                    65)
  /\ Printed(EscY(1, 1) \o <<65>>)
       => WrittenAt(Before.screen, 1, 1, 65)

\* ESC Y <1> <1> and a letter were printed with the cursor elsewhere: the
\* letter is in cell (1, 1), and the cell the cursor was on is as before.
C16_Witness ==
  /\ Printed(EscY(1, 1) \o <<65>>)
  /\ Before.cursorX = LastCol
  /\ Before.cursorY = LastRow
  /\ screen[CellIndex(1, 1)] = 65
  /\ screen[CellIndex(LastCol, LastRow)] = Before.screen[CellIndex(LastCol, LastRow)]
  /\ cursorX = 2
  /\ cursorY = 1

\* C17: direct addressing.  ESC Y with the bytes row + TERM_POS_Y and
\* col + TERM_POS_X puts the cursor at exactly (col, row) when both are
\* inside the grid (the bottom-right cell: row 2, col 5 on a grid of 6 by
\* 3).  With row 99, or with col equal to the number of columns, neither
\* cursor coordinate changes.  In all cases the grid is as before: none of
\* the four bytes is rendered.
C17_DirectAddressing ==
  /\ Printed(EscY(LastRow, LastCol))
       => /\ cursorX = LastCol
          /\ cursorY = LastRow
          /\ screen = Before.screen
  /\ \A str \in {EscY(99, 1), EscY(1, TERM_SCREEN_SIZE_X)} :
       Printed(str)
         => /\ cursorX = Before.cursorX
            /\ cursorY = Before.cursorY
            /\ screen = Before.screen

\* The cursor was sent from the home cell to the bottom-right cell, and an
\* ESC Y with row 99 then left it there.
C17_Witness ==
  /\ Len(apiCalls) = 2
  /\ apiCalls[1].arg = EscY(LastRow, LastCol)
  /\ Printed(EscY(99, 1))
  /\ Before.cursorX = LastCol
  /\ Before.cursorY = LastRow
  /\ cursorX = LastCol
  /\ cursorY = LastRow

\* C18: ESC A, B, C and D move the cursor one cell up, down, right and left
\* when it is not on that edge of the grid and leave it where it is when it
\* is; the grid is unchanged in both cases.
C18_CursorMoves ==
  /\ Printed(<<TERM_ESC_CHAR, 65>>)
       => /\ cursorX = Before.cursorX
          /\ cursorY = (IF Before.cursorY > 0
                        THEN Before.cursorY - 1 ELSE Before.cursorY)
          /\ screen = Before.screen
  /\ Printed(<<TERM_ESC_CHAR, 66>>)
       => /\ cursorX = Before.cursorX
          /\ cursorY = (IF Before.cursorY < LastRow
                        THEN Before.cursorY + 1 ELSE Before.cursorY)
          /\ screen = Before.screen
  /\ Printed(<<TERM_ESC_CHAR, 67>>)
       => /\ cursorX = (IF Before.cursorX < LastCol
                        THEN Before.cursorX + 1 ELSE Before.cursorX)
          /\ cursorY = Before.cursorY
          /\ screen = Before.screen
  /\ Printed(<<TERM_ESC_CHAR, 68>>)
       => /\ cursorX = (IF Before.cursorX > 0
                        THEN Before.cursorX - 1 ELSE Before.cursorX)
          /\ cursorY = Before.cursorY
          /\ screen = Before.screen

\* From the bottom-right cell ESC C left the cursor on the right edge and
\* ESC A then moved it one row up.
C18_Witness ==
  /\ Len(apiCalls) = 3
  /\ apiCalls[2].arg = <<TERM_ESC_CHAR, 67>>
  /\ apiCalls[2].before.cursorX = LastCol
  /\ apiCalls[2].before.cursorY = LastRow
  /\ Printed(<<TERM_ESC_CHAR, 65>>)
  /\ Before.cursorX = LastCol
  /\ Before.cursorY = LastRow
  /\ cursorX = LastCol
  /\ cursorY = LastRow - 1

\* The cells from (x, y) on hold the bytes of str, the rest of the grid is
\* old, and the cursor is right of them.
LiteralAt(old, x, y, str) ==
  /\ \A i \in DOMAIN screen :
       screen[i] = IF i - CellIndex(x, y) \in 0..(Len(str) - 1)
                   THEN str[i - CellIndex(x, y) + 1]
                   ELSE old[i]
  /\ cursorX = x + Len(str)
  /\ cursorY = y

\* C19: term_printString drains its input and ends in NORMAL mode.  A string
\* that ends inside an escape sequence has the bytes accumulated so far, ESC
\* first, rendered in order as characters; and the letter 'A' printed by the
\* call after it is written at the cursor as a character, not taken as the
\* command letter of the sequence left unfinished.
C19_UnfinishedSequenceIsFlushed ==
  /\ \A str \in UnfinishedStrings :
       (Printed(str) /\ Before.cursorX + Len(str) <= LastCol)
         => LiteralAt(Before.screen, Before.cursorX, Before.cursorY, str)
  /\ (/\ Len(apiCalls) >= 2
      /\ apiCalls[Len(apiCalls) - 1].op = "term_printString"
      /\ apiCalls[Len(apiCalls) - 1].arg \in UnfinishedStrings
      /\ Printed(<<65>>)
      /\ Before.cursorX < LastCol)
       => WrittenAt(Before.screen, Before.cursorX, Before.cursorY, 65)

\* A lone ESC was printed on the empty grid and the letter 'A' by the next
\* call: the grid starts with the two bytes.
C19_Witness ==
  /\ Len(apiCalls) = 2
  /\ apiCalls[1].arg = <<TERM_ESC_CHAR>>
  /\ Printed(<<65>>)
  /\ screen[CellIndex(0, 0)] = TERM_ESC_CHAR
  /\ screen[CellIndex(1, 0)] = 65
  /\ cursorX = 2
  /\ cursorY = 0

\* Grid, cursor and previous-cursor position of a terminal state.
ScreenView(t) ==
  <<t.screen, t.cursorX, t.cursorY, t.prevCursorX, t.prevCursorY>>

\* C20: call-boundary independence.  When the last two calls printed s1 and
\* s2 and s1 does not end inside an escape sequence, the grid, the cursor
\* and the previous-cursor position are those that one call printing s1
\* followed by s2 gives from the state the first of the two calls started
\* from.
C20_CallBoundaryIndependence ==
  (/\ Len(apiCalls) >= 2
   /\ LastCall.op = "term_printString"
   /\ apiCalls[Len(apiCalls) - 1].op = "term_printString"
   /\ apiCalls[Len(apiCalls) - 1].arg \notin UnfinishedStrings)
    => ScreenView(Term)
         = ScreenView(term_printString(
                        apiCalls[Len(apiCalls) - 1].before,
                        apiCalls[Len(apiCalls) - 1].arg \o LastCall.arg))

\* After a first call that wrote a letter, ESC B and a letter were printed
\* by one call and ESC D by the next.
C20_Witness ==
  /\ Len(apiCalls) = 3
  /\ apiCalls[1].arg = <<65>>
  /\ apiCalls[2].op = "term_printString"
  /\ apiCalls[2].arg = <<TERM_ESC_CHAR, 66, 65>>
  /\ Printed(<<TERM_ESC_CHAR, 68>>)
  /\ screen[CellIndex(1, 1)] = 65
  /\ cursorX = 1
  /\ cursorY = 1

\* The strings of one cursor-affecting operation: a character write, a line
\* end, ESC A/B/C/D, ESC H, ESC E and ESC Y.
CursorOps ==
  { <<65>>, <<CH_LF>>, <<CH_CR>> }
    \cup { <<TERM_ESC_CHAR, c>> : c \in {65, 66, 67, 68, 69, 72} }
    \cup { EscY(LastRow, LastCol), EscY(99, 1), EscY(1, TERM_SCREEN_SIZE_X) }

\* The display shows the block cursor at the cursor, not at the cell where
\* it was before the call, and the recorded previous position is the cursor.
CursorShownAfter(old) ==
  /\ display[CellIndex(cursorX, cursorY)] = CURSOR_GLYPH
  /\ prevCursorX = cursorX
  /\ prevCursorY = cursorY
  /\ (old.prevCursorX # cursorX \/ old.prevCursorY # cursorY)
       => display[CellIndex(old.prevCursorX, old.prevCursorY)] # CURSOR_GLYPH

\* C21: block-cursor protocol.  After every cursor-affecting operation of
\* term_printString (character write, newline, ESC A/B/C/D, ESC H, ESC E,
\* ESC Y) the display shows the block-cursor glyph at the current cursor
\* position, the glyph is erased from the previous position and the
\* recorded previous position equals the cursor.
C21_BlockCursorShown ==
  \A str \in CursorOps : Printed(str) => CursorShownAfter(Before)

\* C28: clear to end of screen.  ESC J blanks every grid cell from the
\* cursor position to the end of the screen (the cursor's row from the
\* cursor column onward, and every cell of every lower row) and leaves the
\* cells before the cursor position and the cursor unchanged.
C28_ClearToEndOfScreen ==
  Printed(<<TERM_ESC_CHAR, 74>>) =>
    /\ cursorX = Before.cursorX
    /\ cursorY = Before.cursorY
    /\ \A i \in 0..(TERM_SCREEN_SIZE - 1) :
         screen[i] = IF i >= CellIndex(Before.cursorX, Before.cursorY)
                     THEN CH_NUL
                     ELSE Before.screen[i]

\* The last call was termInputChar(chr).
Keyed(chr) ==
  /\ apiCalls # <<>>
  /\ LastCall.op = "termInputChar"
  /\ LastCall.arg = <<chr>>

\* Line buffer, grid and cursor are those of old.
LineGridCursorAsIn(old) ==
  /\ inputBuffer = old.inputBuffer
  /\ inputLength = old.inputLength
  /\ screen = old.screen
  /\ cursorX = old.cursorX
  /\ cursorY = old.cursorY

\* The last character of old's line is gone, the cursor is one cell before
\* old's cursor, that cell is blank and the display shows the cursor there.
LastCharRemoved(old) ==
  /\ inputLength = old.inputLength - 1
  /\ inputBuffer = [old.inputBuffer EXCEPT ![old.inputLength - 1] = CH_NUL]
  /\ CellIndex(cursorX, cursorY) = CellIndex(old.cursorX, old.cursorY) - 1
  /\ cursorX \in 0..LastCol
  /\ cursorY \in 0..LastRow
  /\ screen = [old.screen EXCEPT ![CellIndex(cursorX, cursorY)] = CH_NUL]
  /\ display[CellIndex(cursorX, cursorY)] = CURSOR_GLYPH

\* C23: backspace.  On a non-empty line a backspace removes exactly the last
\* character of the line buffer, moves the cursor back exactly one cell
\* (from column 0 to the last column of the previous row), blanks that cell
\* in the grid and refreshes the display; on an empty line it leaves the
\* line buffer, the grid and the cursor unchanged.
C23_Backspace ==
  Keyed(CH_BS) =>
    IF Before.inputLength > 0
    THEN LastCharRemoved(Before)
    ELSE LineGridCursorAsIn(Before)

\* C24: backspace at the origin.  A backspace received while the cursor is
\* at (0,0) is a no-op in every reachable state: line buffer and length,
\* grid and cursor are unchanged and the cursor is not negative.
C24_BackspaceAtOriginIsNoOp ==
  (Keyed(CH_BS) /\ Before.cursorX = 0 /\ Before.cursorY = 0) =>
    /\ LineGridCursorAsIn(Before)
    /\ cursorX >= 0
    /\ cursorY >= 0

---------------------------------------------------------------------------
(* Properties of the line editor.                                          *)

\* The keys of the line editor that are neither backspace nor a line end.
OrdinaryKeys == EditKeys \ {CH_BS, CH_LF, CH_CR}

\* The text of the line buffer of terminal state t.
Line(t) == CStr(t.inputBuffer, TERM_INPUT_BUFFER_SIZE)

\* chr was rendered at old's cursor: it is in that cell and the cursor is one
\* cell further, or, from the bottom-right cell, the grid with chr in it has
\* scrolled up one row and the cursor is at the start of the last row.
RenderedAtCursor(old, chr) ==
  LET written == [old.screen EXCEPT ![CellIndex(old.cursorX, old.cursorY)] = chr]
  IN IF old.cursorX = LastCol /\ old.cursorY = LastRow
     THEN /\ RowsMovedUp(screen, written)
          /\ \A c \in 0..LastCol : screen[CellIndex(c, LastRow)] = CH_NUL
          /\ cursorX = 0
          /\ cursorY = LastRow
     ELSE /\ screen = written
          /\ CellIndex(cursorX, cursorY) = CellIndex(old.cursorX, old.cursorY) + 1

\* C22: line-buffer bound.  After any sequence of keystrokes inputLength
\* never exceeds TERM_INPUT_BUFFER_SIZE - 1; an ordinary character typed
\* when the buffer is full is dropped silently (line buffer, length, grid
\* and cursor unchanged, no handler invoked), and one typed when capacity
\* remains is appended at the end of the line and rendered at the cursor.
C22_LineBufferBound ==
  /\ inputLength <= TERM_INPUT_BUFFER_SIZE - 1
  /\ inputBuffer[TERM_INPUT_BUFFER_SIZE - 1] = CH_NUL
  /\ \A chr \in OrdinaryKeys :
       Keyed(chr) =>
         IF Before.inputLength >= TERM_INPUT_BUFFER_SIZE - 1
         THEN /\ LineGridCursorAsIn(Before)
              /\ display = Before.display
              /\ invoked = Before.invoked
         ELSE /\ inputLength = Before.inputLength + 1
              /\ Line(Term) = Line(Before) \o <<chr>>
              /\ RenderedAtCursor(Before, chr)
              /\ invoked = Before.invoked

\* A fourth key was typed on a full line and dropped, after the third key
\* had been appended to a line with room.
C22_Witness ==
  /\ Len(apiCalls) >= 2
  /\ Keyed(97)
  /\ Before.inputLength = TERM_INPUT_BUFFER_SIZE - 1
  /\ Line(Term) = [i \in 1..(TERM_INPUT_BUFFER_SIZE - 1) |-> 120]
  /\ apiCalls[Len(apiCalls) - 1].arg = <<120>>
  /\ apiCalls[Len(apiCalls) - 1].before.inputLength = TERM_INPUT_BUFFER_SIZE - 2

\* The handler calls the last keystroke made, in order: <<entry, argument>>.
NewInvocations == SubSeq(invoked, Len(Before.invoked) + 1, Len(invoked))

\* The entries of the registry of terminal state t whose name is name.
Matching(t, name) == { i \in 1..t.numCommands : commands[i].command = name }

RECURSIVE Ascending(_)
\* The numbers of set S in increasing order.
Ascending(S) ==
  IF S = {} THEN <<>>
  ELSE LET m == CHOOSE x \in S : \A y \in S : x <= y
       IN <<m>> \o Ascending(S \ {m})

\* The last keystroke invoked exactly the entries of set S, once each, in
\* registry order, each with argument arg.
InvokedInOrder(S, arg) ==
  NewInvocations = [k \in 1..Cardinality(S) |-> <<Ascending(S)[k], arg>>]

\* Command token and remainder of the line the last newline submitted.
Submitted == ScanCommandLine(Line(Before))

\* C25: named dispatch.  On newline every registry entry whose name equals
\* the command token is invoked exactly once, in registry order, with the
\* remainder of the line as argument (the empty string when there is none);
\* duplicates are all invoked, and when at least one entry matched no
\* fallback (empty-name) entry is invoked.
C25_NamedDispatch ==
  (Keyed(CH_LF) /\ Matching(Before, Submitted.command) # {}) =>
    /\ InvokedInOrder(Matching(Before, Submitted.command), Submitted.arg)
    /\ (Line(Before) = <<120>> => Submitted.arg = <<>>)
    /\ (Line(Before) = <<120, CH_SPACE, 97>> =>
          Submitted.command = <<120>> /\ Submitted.arg = <<97>>)
    /\ \A k \in 1..Len(NewInvocations) :
         commands[NewInvocations[k][1]].command # <<>>

\* C26: fallback dispatch.  On newline, if the command token is non-empty
\* and equals no registry entry's name, every entry with an empty name is
\* invoked exactly once, in registry order, with the entire raw line (not
\* only the remainder) as its argument, and no other handler is invoked.
C26_FallbackDispatch ==
  (/\ Keyed(CH_LF)
   /\ Submitted.command # <<>>
   /\ Matching(Before, Submitted.command) = {}) =>
    InvokedInOrder(Matching(Before, <<>>), Line(Before))

\* The line "a x", whose token names no entry, was submitted to the whole
\* table: the two empty-name entries ran, entry 3 before entry 5, each with
\* "a x" and not "x", and the entry named x between them did not.
C26_Witness ==
  /\ Keyed(CH_LF)
  /\ Line(Before) = <<97, CH_SPACE, 120>>
  /\ Submitted.command = <<97>>
  /\ Submitted.arg = <<120>>
  /\ Before.numCommands = Len(commands)
  /\ Matching(Before, <<>>) = {3, 5}
  /\ NewInvocations = << <<3, <<97, CH_SPACE, 120>> >>,
                         <<5, <<97, CH_SPACE, 120>> >> >>

\* C27: after every newline keystroke, whatever the match outcome and
\* whatever the handlers printed, the line buffer is all zeros, inputLength
\* is 0 and the prompt is the last thing rendered (the two cells before the
\* cursor), and the line was dispatched at most once: no entry ran twice.
C27_NewlineResetsLine ==
  Keyed(CH_LF) =>
    /\ inputLength = 0
    /\ \A i \in 0..(TERM_INPUT_BUFFER_SIZE - 1) : inputBuffer[i] = CH_NUL
    /\ CellIndex(cursorX, cursorY) >= Len(STR_PROMPT)
    /\ \A k \in 1..Len(STR_PROMPT) :
         screen[CellIndex(cursorX, cursorY) - Len(STR_PROMPT) + k - 1] = STR_PROMPT[k]
    /\ \A j, k \in 1..Len(NewInvocations) :
         NewInvocations[j][1] = NewInvocations[k][1] => j = k

\* A line with an unknown token was submitted to a registry without an
\* empty-name entry: nothing was invoked, and the line is gone.
C27_Witness ==
  /\ Keyed(CH_LF)
  /\ Line(Before) = <<97, 97>>
  /\ Before.numCommands = 2
  /\ NewInvocations = <<>>
  /\ inputLength = 0

---------------------------------------------------------------------------
(* Properties of the button watcher.                                       *)

\* Both cores access a piece of state and at least one of them writes it.
SharedBetweenCores(writers, readers) ==
  \E w \in writers : \E a \in writers \cup readers : a # w

\* C29: core1WaitActive is the only state shared between the main core and
\* the core-1 worker, and it is single-writer/single-reader: exactly one of
\* the two execution contexts ever writes it and the other only reads it.
C29_FlagIsOnlySharedState ==
  /\ Cardinality(selectLog.flagWriters) <= 1
  /\ ~SharedBetweenCores(selectLog.cbWriters, selectLog.cbReaders)

---------------------------------------------------------------------------
(* Properties of the settings commands.                                    *)

RECURSIVE WordsFrom(_, _)
\* The white-space-delimited words of s from position i, in order.
WordsFrom(s, i) ==
  LET b == SkipSpace(s, i)
      e == RunEnd(s, b, Len(s), WhiteSpace)
  IN IF b > Len(s) THEN <<>>
     ELSE <<SubSeq(s, b, e - 1)>> \o WordsFrom(s, e)

RECURSIVE NumberOf(_)
\* The natural number a sequence of digits denotes.
NumberOf(digits) ==
  IF digits = <<>> THEN 0
  ELSE NumberOf(SubSeq(digits, 1, Len(digits) - 1)) * 10
         + (digits[Len(digits)] - CH_ZERO)

\* word is a decimal integer within the int range: an optional sign and at
\* least one digit.
IsIntLiteral(word) ==
  LET signed == word # <<>> /\ word[1] \in {CH_PLUS, CH_MINUS}
      digits == IF signed THEN SubSeq(word, 2, Len(word)) ELSE word
  IN /\ digits # <<>>
     /\ \A k \in 1..Len(digits) : IsDigit(digits[k])
     /\ IF signed /\ word[1] = CH_MINUS
        THEN -NumberOf(digits) >= INT_MIN
        ELSE NumberOf(digits) <= INT_MAX

\* The arguments C30 admits: a key shorter than
\* SETTINGS_MAX_KEY_LENGTH, then a decimal integer within the int range,
\* then nothing but white space.
WellFormedPutInt(arg) ==
  /\ Len(WordsFrom(arg, 1)) = 2
  /\ Len(WordsFrom(arg, 1)[1]) < SETTINGS_MAX_KEY_LENGTH
  /\ IsIntLiteral(WordsFrom(arg, 1)[2])

\* C30: term_cmdPutInt calls settings_put_integer only when the argument is
\* a key shorter than SETTINGS_MAX_KEY_LENGTH followed by a well-formed
\* decimal integer within the int range with nothing but white space after
\* it; for every other argument it prints an error and the settings store
\* is not touched.
C30_PutIntOnlyWhenWellFormed ==
  (apiCalls # <<>> /\ LastCall.op = "term_cmdPutInt") =>
    /\ settingsPuts # <<>> => WellFormedPutInt(LastCall.arg)
    /\ ~WellFormedPutInt(LastCall.arg) =>
         settingsPuts = <<>> /\ termOutput = <<MSG_INVALID>>

\* C31: a line whose command token is empty (an empty line or a line of
\* white space only) invokes no registry handler, the empty-name fallback
\* entries included; only the newline and the prompt are rendered.
C31_EmptyTokenInvokesNothing ==
  (Keyed(CH_LF) /\ Submitted.command = <<>>) =>
    /\ NewInvocations = <<>>
    /\ term_printString(termRenderChar(Before, CH_LF), STR_PROMPT).screen = screen

\* What the display shows for a stored byte: a blank for NUL.
Shown(chr) == IF chr = CH_NUL THEN CH_SPACE ELSE chr

\* Every display cell of the grid other than the cell under the cursor
\* shows the character stored for it in the screen buffer.
DisplayMirrorsGrid ==
  \A i \in 0..(TERM_SCREEN_SIZE - 1) :
    i # CellIndex(cursorX, cursorY) => display[i] = Shown(screen[i])

\* C32: display mirror.  After every completed term_printString call or
\* keystroke every display cell other than the cell under the cursor shows
\* the character stored for that cell in the screen buffer (NUL shown as a
\* blank); moving the block cursor over a cell and away again restores the
\* cell's character on the display.
C32_DisplayMirror ==
  (apiCalls # <<>> /\ LastCall.op \in {"term_printString", "termInputChar"})
    => DisplayMirrorsGrid

---------------------------------------------------------------------------
(* Records whose payload is shorter than the bytes the dispatcher reads:   *)
(* a keystroke record that carries its random token only, published among  *)
(* full keystroke records.                                                 *)

ShortPublishes == 3
ShortLoops == 2

ShortRecords ==
  { r \in InputRecords : r.final_checksum = 12 }
    \cup
  { [command_id |-> APP_TERMINAL_KEYSTROKE, payload_size |-> 4, bytes_read |-> 4,
     final_checksum |-> 14, payload |-> Payload(<<13, 14, 15, 16>>)] }

NextShort ==
  \/ \E rec \in ShortRecords : IsrEnter(rec, ShortPublishes)
  \/ IsrCopyHeader
  \/ IsrCopyPayload
  \/ IsrCountOverwrite
  \/ IsrReadIndex
  \/ IsrSetReadIndex
  \/ IsrSetWriteIndex
  \/ IsrSetReady
  \/ term_init
  \/ LoopEnter(ShortLoops)
  \/ LoopCheck
  \/ LoopCopyHeader
  \/ LoopCopyPayload
  \/ LoopClearReady
  \/ LoopCount
  \/ LoopBranch
  \/ LoopHandle
  \/ LoopTokens

SpecShort == Init /\ [][NextShort]_vars

\* The slot a record's publish fills when no publish came before it: the
\* handler copies the first min(payload_size, MAX_PROTOCOL_PAYLOAD_SIZE)
\* payload bytes into the zeroed static buffer.
PublishedAlone(rec) ==
  [rec EXCEPT !.payload =
     [i \in 0..(MAX_PROTOCOL_PAYLOAD_SIZE - 1) |->
        IF i < rec.payload_size THEN rec.payload[i] ELSE ZeroProtocol.payload[i]]]

\* The character the dispatcher feeds to the line editor for a snapshot;
\* -1 when the command feeds none.
FedChar(snapshot) ==
  CASE snapshot.command_id = APP_TERMINAL_START -> CH_LF
    [] snapshot.command_id = APP_TERMINAL_KEYSTROKE ->
         TPROTO_GET_PAYLOAD_PARAM32(snapshot.payload, 4).lo
           % (TERM_KEYBOARD_KEY_MASK + 1)
    [] OTHER -> -1

\* The record whose publish the drained snapshot holds.
DrainedRecord == published[snapshotTag.payload]

\* C33: what the dispatcher does with a drained record depends only on
\* what that record's own publish supplied (command_id, payload_size and
\* the first payload_size payload bytes): the character fed to the line
\* editor and the token echoed to shared memory are those of the history in
\* which the record is the only publish, whatever was published before it;
\* bytes an earlier record left in the slot are never interpreted.
C33_DispatchDependsOnOwnRecord ==
  (loop.pc = "tokens" /\ snapshotTag.payload # 0) =>
    /\ FedChar(loop.protocolSnapshot) = FedChar(PublishedAlone(DrainedRecord))
    /\ loop.randomToken =
         TPROTO_GET_RANDOM_TOKEN(PublishedAlone(DrainedRecord).payload)

---------------------------------------------------------------------------
(* The channel under fair scheduling: the interrupt handler, once entered, *)
(* runs to its return, and the firmware's main loop calls term_loop again  *)
(* and again, each call running to its return.  Publishes are the host's   *)
(* and are under no obligation.                                            *)

LivePublishes == 2
LiveLoops == 2

LiveRecords ==
  { r \in InputRecords : r.final_checksum \in {12, 15} }

IsrRuns ==
  \/ IsrCopyHeader
  \/ IsrCopyPayload
  \/ IsrCountOverwrite
  \/ IsrReadIndex
  \/ IsrSetReadIndex
  \/ IsrSetWriteIndex
  \/ IsrSetReady

LoopRuns ==
  \/ LoopEnter(LiveLoops)
  \/ LoopCheck
  \/ LoopCopyHeader
  \/ LoopCopyPayload
  \/ LoopClearReady
  \/ LoopCount
  \/ LoopBranch
  \/ LoopHandle
  \/ LoopTokens

NextLive ==
  \/ \E rec \in LiveRecords : IsrEnter(rec, LivePublishes)
  \/ IsrCopyHeader
  \/ IsrCopyPayload
  \/ IsrCountOverwrite
  \/ IsrReadIndex
  \/ IsrSetReadIndex
  \/ IsrSetWriteIndex
  \/ IsrSetReady
  \/ term_init
  \/ LoopEnter(LiveLoops)
  \/ LoopCheck
  \/ LoopCopyHeader
  \/ LoopCopyPayload
  \/ LoopClearReady
  \/ LoopCount
  \/ LoopBranch
  \/ LoopHandle
  \/ LoopTokens

SpecLive ==
  Init /\ [][NextLive]_vars /\ WF_vars(IsrRuns) /\ WF_vars(LoopRuns)

\* Publish n has been drained and its dispatch has run.
Dispatched(n) ==
  /\ n \in Range(observed)
  /\ snapshotTag.command_id = n => loop.pc = "tokens"

\* A completed publish that no drain has taken yet is the record of the read
\* slot, with the ready flag set.
PendingPublishIsReady ==
  (isr.pc = "idle" /\ published # <<>> /\ Len(published) \notin Range(observed))
    => /\ protocolBufferReady
       /\ \A f \in Fields : bufferTag[protocolReadIndex][f] = Len(published)

\* A drain takes the record published last, whole, and that record is the
\* one dispatched.
DrainTakesLastPublish ==
  /\ loop.pc = "count" /\ loop.protocolReady
       => \A f \in Fields : snapshotTag[f] = Len(published)
  /\ loop.pc \in {"count", "branch", "handle", "tokens"} /\ loop.protocolReady
       => /\ \A f \in Fields : snapshotTag[f] = observed[Len(observed)]
          /\ loop.protocolSnapshot.command_id =
               published[observed[Len(observed)]].command_id

\* C34: a publish that interrupts the main loop after its critical section,
\* while the previously drained record is still being handled, is not lost:
\* the ready flag stays set and the read slot holds that record until a
\* drain takes it, the drain of the next term_loop call takes exactly the
\* record published last, and, term_loop being called again, the record
\* published last is eventually dispatched unless a further publish
\* replaces it.
C34_PublishDuringDispatchNotLost ==
  /\ [](PendingPublishIsReady /\ DrainTakesLastPublish)
  /\ \A n \in 1..LivePublishes :
       (Len(published) = n /\ loopCalls < LiveLoops)
         ~> (Dispatched(n) \/ Len(published) > n)

\* The second publish came while the first record was being handled and is
\* the record now dispatched.
C34_Witness ==
  /\ Len(published) = 2
  /\ observed = <<1, 2>>
  /\ overwritten = {}
  /\ loop.pc = "tokens"
  /\ snapshotTag.command_id = 2
  /\ loopCalls = 2

---------------------------------------------------------------------------
(* The escape accumulator of term_printString: one call on every string of *)
(* up to MaxEscLen bytes over ESC, 'Y', a command letter and a coordinate  *)
(* byte.                                                                   *)

MaxEscLen == 5

EscBytes == {TERM_ESC_CHAR, 89, 65, 1 + TERM_POS_X}

EscStrings ==
  UNION { [1..n -> EscBytes] : n \in 1..MaxEscLen }

ApiPrintOnce(str) ==
  /\ apiCalls = <<>>
  /\ ApiPrintString(str)

NextEsc == \E str \in EscStrings : ApiPrintOnce(str)

SpecEsc == Init /\ [][NextEsc]_vars

\* The locals of the last term_printString call after its first k loop
\* iterations.
PrintLocalsAfter(k) ==
  PrintRange(PrintStart(Before), LastCall.arg, 1, k)

\* C35: escape accumulator bound.  At every step of term_printString, while
\* the mode is ESCAPE the accumulator holds between 1 and 3 bytes, its first
\* byte is ESC, and it holds more than one byte only when its second byte is
\* 'Y'; the accumulator length never exceeds 4, and no byte is stored at an
\* index at or beyond TERM_ESC_BUFFLINE_SIZE.
C35_EscapeAccumulatorBound ==
  (apiCalls # <<>> /\ LastCall.op = "term_printString") =>
    \A k \in 0..StrLen(LastCall.arg) :
      \A st \in { PrintLocalsAfter(k) } :
        /\ st.inEsc =>
             /\ Len(st.escBuffer) \in 1..3
             /\ st.escBuffer[1] = TERM_ESC_CHAR
             /\ Len(st.escBuffer) > 1 => st.escBuffer[2] = 89
        /\ Len(st.escBuffer) <= 4
        /\ \A i \in 1..Len(st.escBuffer) : i - 1 < TERM_ESC_BUFFLINE_SIZE

\* A call whose accumulator held three bytes in ESCAPE mode and then took
\* the fourth.
C35_Witness ==
  /\ apiCalls # <<>>
  /\ LastCall.op = "term_printString"
  /\ \E k \in 1..(StrLen(LastCall.arg) - 1) :
       /\ PrintLocalsAfter(k).inEsc
       /\ Len(PrintLocalsAfter(k).escBuffer) = 3
       /\ ~PrintLocalsAfter(k + 1).inEsc
       /\ Len(PrintLocalsAfter(k + 1).escBuffer) = 4

---------------------------------------------------------------------------
(* select_checkPushReset, the polled form of the button watcher: the main  *)
(* core calls it again and again while the button changes at any moment,   *)
(* between two samples of one call included.                               *)

MaxCheckCalls == 3

\* The press the pin is in: the number of rising edges so far.  The pin
\* starts released.
PressNumber == (selectLog.toggles + 1) \div 2

PushEvent(event) == [event |-> event, press |-> PressNumber]

\* bool isPressed = select_detectPush(); and the two tests on it: the call
\* goes on to select_detectStableState or returns.
CheckPushCall ==
  /\ checkPush.pc = "idle"
  /\ selectLog.calls < MaxCheckCalls
  /\ checkPush' =
       [pc |-> IF buttonLevel # selectPressedLatched THEN "sample1" ELSE "idle",
        isPressed |-> buttonLevel, firstSample |-> FALSE]
  /\ selectLog' = [selectLog EXCEPT !.calls = @ + 1]
  /\ UNCHANGED <<core1WaitActive, reset_cb, reset_long_cb, selectMain, core1,
                 buttonLevel, selectPressedLatched, pushLog>>
  /\ UNCHANGED <<termVars, apiCalls, chanVars, memVars, isr, loop, ghostVars,
                 settingsVars, sdVars, callVars>>

\* bool firstSample = select_detectPush(); sleep_ms(SELECT_DEBOUNCE_DELAY);
CheckPushFirstSample ==
  /\ checkPush.pc = "sample1"
  /\ checkPush' = [checkPush EXCEPT !.pc = "sample2", !.firstSample = buttonLevel]
  /\ UNCHANGED <<selectVars, selectPressedLatched, pushLog>>
  /\ UNCHANGED <<termVars, apiCalls, chanVars, memVars, isr, loop, ghostVars,
                 settingsVars, sdVars, callVars>>

\* A call that invokes the callback on a stable press and sets no latch.
CheckPushSecondSampleNoLatch ==
  /\ checkPush.pc = "sample2"
  /\ LET expectedState == checkPush.isPressed
         stable == checkPush.firstSample = expectedState
                     /\ buttonLevel = expectedState
     IN IF expectedState
        THEN IF ~stable
             THEN /\ pushLog' = Append(pushLog, PushEvent("unstable"))
                  /\ UNCHANGED <<selectPressedLatched, selectLog>>
             ELSE /\ UNCHANGED selectPressedLatched
                  /\ IF reset_cb # "NULL"
                     THEN /\ selectLog' = [selectLog EXCEPT
                                             !.fired = Append(@, reset_cb)]
                          /\ pushLog' = Append(pushLog, PushEvent("fire"))
                     ELSE /\ pushLog' = Append(pushLog, PushEvent("latch"))
                          /\ UNCHANGED selectLog
        ELSE IF stable
             THEN /\ selectPressedLatched' = FALSE
                  /\ pushLog' = Append(pushLog, PushEvent("release"))
                  /\ UNCHANGED selectLog
             ELSE UNCHANGED <<selectPressedLatched, selectLog, pushLog>>
  /\ checkPush' = CheckPushIdle
  /\ UNCHANGED <<core1WaitActive, reset_cb, reset_long_cb, selectMain, core1,
                 buttonLevel>>
  /\ UNCHANGED <<termVars, apiCalls, chanVars, memVars, isr, loop, ghostVars,
                 settingsVars, sdVars, callVars>>

\* bool secondSample = select_detectPush(); the result of
\* select_detectStableState, and the rest of the call: on a stable press the
\* latch is set and reset_cb, if there is one, is called; on a stable
\* release the latch is cleared.
CheckPushSecondSample ==
  /\ checkPush.pc = "sample2"
  /\ LET expectedState == checkPush.isPressed
         stable == checkPush.firstSample = expectedState
                     /\ buttonLevel = expectedState
     IN IF expectedState
        THEN IF ~stable
             THEN /\ pushLog' = Append(pushLog, PushEvent("unstable"))
                  /\ UNCHANGED <<selectPressedLatched, selectLog>>
             ELSE /\ selectPressedLatched' = TRUE
                  /\ IF reset_cb # "NULL"
                     THEN /\ selectLog' = [selectLog EXCEPT
                                             !.fired = Append(@, reset_cb)]
                          /\ pushLog' = Append(pushLog, PushEvent("fire"))
                     ELSE /\ pushLog' = Append(pushLog, PushEvent("latch"))
                          /\ UNCHANGED selectLog
        ELSE IF stable
             THEN /\ selectPressedLatched' = FALSE
                  /\ pushLog' = Append(pushLog, PushEvent("release"))
                  /\ UNCHANGED selectLog
             ELSE UNCHANGED <<selectPressedLatched, selectLog, pushLog>>
  /\ checkPush' = CheckPushIdle
  /\ UNCHANGED <<core1WaitActive, reset_cb, reset_long_cb, selectMain, core1,
                 buttonLevel>>
  /\ UNCHANGED <<termVars, apiCalls, chanVars, memVars, isr, loop, ghostVars,
                 settingsVars, sdVars, callVars>>

NextCheckPush ==
  \/ \E reset \in ResetCallbacks : SetResetCallback(reset)
  \/ \E resetLong \in LongResetCallbacks : SetLongResetCallback(resetLong)
  \/ CheckPushCall
  \/ CheckPushFirstSample
  \/ CheckPushSecondSample
  \/ ButtonChange

SpecCheckPush == Init /\ [][NextCheckPush]_vars

\* The positions in the log of the calls that set the latch.
Latchings == { i \in 1..Len(pushLog) : pushLog[i].event \in {"fire", "latch"} }

\* The callback invocations are those the log has as fired.
FiredAsLogged ==
  Len(selectLog.fired) =
    Cardinality({ i \in 1..Len(pushLog) : pushLog[i].event = "fire" })

\* C36: select_checkPushReset latches a press.  Over any sequence of calls
\* and button levels the reset callback is invoked at most once per
\* continuous press; after the latch was set nothing fires, and the latch is
\* not set again, until a call has observed a stable (two-sample) release;
\* and a press that is not stable across the debounce interval fires
\* nothing and sets no latch.
C36_CheckPushLatches ==
  /\ FiredAsLogged
  /\ \A i, j \in Latchings : i < j =>
       /\ pushLog[i].press # pushLog[j].press
       /\ \E k \in (i + 1)..(j - 1) : pushLog[k].event = "release"
  /\ selectPressedLatched <=>
       (\E i \in Latchings :
          \A k \in (i + 1)..Len(pushLog) : pushLog[k].event # "release")
  /\ (pushLog # <<>> /\ pushLog[Len(pushLog)].event = "unstable") =>
       /\ ~selectPressedLatched
       /\ Len(selectLog.fired) =
            Cardinality({ i \in 1..(Len(pushLog) - 1) : pushLog[i].event = "fire" })

\* The callback fired for one press, a call observed the stable release,
\* and the callback fired again for the next press.
C36_Witness ==
  /\ Len(selectLog.fired) = 2
  /\ \E i, j \in Latchings : i < j /\ pushLog[i].event = "fire"
                              /\ pushLog[j].event = "fire"
  /\ selectPressedLatched

\* A core-1 worker is running: core 1 is in core1_waitPush.
WorkerRunning == core1.pc \notin {"off", "fault"}

\* The core-1 worker is running and the end of its wait, with the callback,
\* is still ahead of it.
WorkerArmed == WorkerRunning /\ core1.pc # "clear"

\* select_coreWaitPush returns at "Core 1 wait for SELECT is already
\* active".
ReturnsAlreadyActive ==
  selectMain = "pushCheck" /\ core1WaitActive /\ selectMain' = "idle"

\* C37: no lost arming of the button watcher.  In every interleaving of the
\* main core and the core-1 worker, whenever the main core is in no call of
\* select.c and core1WaitActive is true a core-1 worker is still running;
\* and a call of select_coreWaitPush that returns early because the wait is
\* already active leaves behind a worker that has its wait, and the reset
\* callback of the next stable press, still ahead of it.
C37_NoLostArming ==
  /\ []((selectMain = "idle" /\ core1WaitActive) => WorkerRunning)
  /\ [][ReturnsAlreadyActive => WorkerArmed']_vars

---------------------------------------------------------------------------
(* sdcard.c: sdcard_initFilesystem called again and again, with valid and  *)
(* invalid arguments, the SD driver and the FatFs calls succeeding or      *)
(* failing; sdcard_isMounted read in between.                              *)

MaxSdCalls == 3

SDCARD_INIT_OK == 0
SDCARD_INIT_ERROR == -1
SDCARD_MOUNT_ERROR == -2
SDCARD_CREATE_FOLDER_ERROR == -3

\* FRESULT of FatFs: success, and one of its error codes.
FR_OK == 0
FR_DISK_ERR == 1

\* What the driver and the filesystem answer during one call, if asked:
\* sd_init_driver, f_mount, sdcard_dirExist (f_stat) and f_mkdir.
SdEnvs ==
  [driver : BOOLEAN, mount : {FR_OK, FR_DISK_ERR}, dirExist : BOOLEAN,
   mkdir : {FR_OK, FR_DISK_ERR}]

\* The FATFS objects of the callers, and the folder names: no string, the
\* empty string and a name.
FsPtrs == {"NULL", "fs1", "fs2"}
FolderNames == {"NULL", <<>>, <<102>>}

\* A call that leaves the flags alone until it succeeds.
sdcard_initFilesystemKeepFlags(mounted, fsPtr, folderName, env) ==
  IF fsPtr = "NULL" \/ folderName = "NULL" \/ folderName = <<>>
  THEN [status |-> SDCARD_INIT_ERROR, asked |-> <<>>,
        sdMounted |-> mounted.sdMounted, mountedFsPtr |-> mounted.mountedFsPtr]
  ELSE IF ~env.driver
  THEN [status |-> SDCARD_INIT_ERROR, asked |-> <<"sd_init_driver">>,
        sdMounted |-> mounted.sdMounted, mountedFsPtr |-> mounted.mountedFsPtr]
  ELSE IF env.mount # FR_OK
  THEN [status |-> SDCARD_MOUNT_ERROR, asked |-> <<"sd_init_driver", "f_mount">>,
        sdMounted |-> mounted.sdMounted, mountedFsPtr |-> mounted.mountedFsPtr]
  ELSE IF ~env.dirExist /\ env.mkdir # FR_OK
  THEN [status |-> SDCARD_CREATE_FOLDER_ERROR,
        asked |-> <<"sd_init_driver", "f_mount", "f_stat", "f_mkdir">>,
        sdMounted |-> mounted.sdMounted, mountedFsPtr |-> mounted.mountedFsPtr]
  ELSE [status |-> SDCARD_INIT_OK,
        asked |-> IF env.dirExist
                  THEN <<"sd_init_driver", "f_mount", "f_stat">>
                  ELSE <<"sd_init_driver", "f_mount", "f_stat", "f_mkdir">>,
        sdMounted |-> TRUE, mountedFsPtr |-> fsPtr]

\* sdcard_initFilesystem(fsPtr, folderName) from the flags in mounted: the
\* status returned, the calls made to the driver and to FatFs, in order, and
\* the flags at the return.
sdcard_initFilesystem(mounted, fsPtr, folderName, env) ==
  IF fsPtr = "NULL" \/ folderName = "NULL" \/ folderName = <<>>
  THEN [status |-> SDCARD_INIT_ERROR, asked |-> <<>>,
        sdMounted |-> FALSE, mountedFsPtr |-> "NULL"]
  ELSE IF ~env.driver
  THEN [status |-> SDCARD_INIT_ERROR, asked |-> <<"sd_init_driver">>,
        sdMounted |-> FALSE, mountedFsPtr |-> "NULL"]
  ELSE IF env.mount # FR_OK
  THEN [status |-> SDCARD_MOUNT_ERROR, asked |-> <<"sd_init_driver", "f_mount">>,
        sdMounted |-> FALSE, mountedFsPtr |-> "NULL"]
  ELSE IF ~env.dirExist /\ env.mkdir # FR_OK
  THEN [status |-> SDCARD_CREATE_FOLDER_ERROR,
        asked |-> <<"sd_init_driver", "f_mount", "f_stat", "f_mkdir">>,
        sdMounted |-> FALSE, mountedFsPtr |-> "NULL"]
  ELSE [status |-> SDCARD_INIT_OK,
        asked |-> IF env.dirExist
                  THEN <<"sd_init_driver", "f_mount", "f_stat">>
                  ELSE <<"sd_init_driver", "f_mount", "f_stat", "f_mkdir">>,
        sdMounted |-> TRUE, mountedFsPtr |-> fsPtr]

\* bool sdcard_isMounted(void)
sdcard_isMounted == sdMounted /\ mountedFsPtr # "NULL"

CallInitFilesystem(fsPtr, folderName, env) ==
  /\ Len(sdCalls) < MaxSdCalls
  /\ \E r \in { sdcard_initFilesystem(
                  [sdMounted |-> sdMounted, mountedFsPtr |-> mountedFsPtr],
                  fsPtr, folderName, env) } :
       /\ sdMounted' = r.sdMounted
       /\ mountedFsPtr' = r.mountedFsPtr
       /\ sdCalls' = Append(sdCalls,
                            [fsPtr |-> fsPtr, folderName |-> folderName,
                             status |-> r.status, asked |-> r.asked,
                             wasMounted |-> sdcard_isMounted])
  /\ UNCHANGED <<termVars, chanVars, memVars, isr, loop, ghostVars, apiCalls,
                 selectVars, settingsVars, pollVars, callVars>>

NextSdcard ==
  \E fsPtr \in FsPtrs, folderName \in FolderNames, env \in SdEnvs :
    CallInitFilesystem(fsPtr, folderName, env)

SpecSdcard == Init /\ [][NextSdcard]_vars

\* The most recent call of sdcard_initFilesystem.
LastSdCall == sdCalls[Len(sdCalls)]

\* The checks of a call in their order: the arguments, the driver, the
\* mount, the folder.  A call asks the driver and FatFs only as far as its
\* earlier checks passed, and its status is that of the first check that
\* failed.
CheckedInOrder(call) ==
  LET invalid == call.fsPtr = "NULL" \/ call.folderName = "NULL"
                   \/ call.folderName = <<>>
  IN CASE call.status = SDCARD_INIT_ERROR ->
            IF invalid THEN call.asked = <<>>
            ELSE call.asked = <<"sd_init_driver">>
       [] call.status = SDCARD_MOUNT_ERROR ->
            ~invalid /\ call.asked = <<"sd_init_driver", "f_mount">>
       [] call.status = SDCARD_CREATE_FOLDER_ERROR ->
            ~invalid
              /\ call.asked = <<"sd_init_driver", "f_mount", "f_stat", "f_mkdir">>
       [] call.status = SDCARD_INIT_OK ->
            ~invalid
              /\ SubSeq(call.asked, 1, 3) = <<"sd_init_driver", "f_mount", "f_stat">>

\* C38: mounted-state tracking.  After any sequence of sdcard_initFilesystem
\* calls sdcard_isMounted() is true if and only if the most recent call
\* returned SDCARD_INIT_OK; every failing call (invalid arguments, driver
\* init failure, mount failure, folder creation failure) leaves it false
\* even when an earlier call had succeeded; the failures are checked in that
\* order; and sdMounted is true exactly when mountedFsPtr is not NULL.
C38_MountedStateTracking ==
  /\ sdMounted <=> mountedFsPtr # "NULL"
  /\ sdcard_isMounted <=>
       (sdCalls # <<>> /\ LastSdCall.status = SDCARD_INIT_OK)
  /\ sdCalls # <<>> =>
       /\ LastSdCall.status \in {SDCARD_INIT_OK, SDCARD_INIT_ERROR,
                                 SDCARD_MOUNT_ERROR, SDCARD_CREATE_FOLDER_ERROR}
       /\ CheckedInOrder(LastSdCall)
       /\ LastSdCall.status = SDCARD_INIT_OK => mountedFsPtr = LastSdCall.fsPtr

\* A call failed at the mount after an earlier call had succeeded.
C38_Witness ==
  /\ Len(sdCalls) >= 2
  /\ LastSdCall.wasMounted
  /\ LastSdCall.status = SDCARD_MOUNT_ERROR
  /\ ~sdcard_isMounted


---------------------------------------------------------------------------
(* The status menu.  term_printNetworkInfo prints the status lines and     *)
(* remembers the rows of the three live ones, term_markMenuPromptCursor    *)
(* remembers where the prompt is, and term_refreshMenuLiveInfo prints      *)
(* again the live lines that changed.  What the settings store, the        *)
(* network stack and FatFs answer comes with each call; the button and the *)
(* mounted state are those of select.c and sdcard.c.                       *)

TERM_NETWORK_INFO_VALUE_SIZE == 64
TERM_MENU_LIVE_LINE_MAX == 128
UPDATE_BUFFER_SIZE == 512
NUM_BYTES_PER_SECTOR == 512
SDCARD_MEGABYTE == 1048576
CH_K == 75
CH_SLASH == 47

\* The words and the line heads of the menu.
MenuText ==
  [na |-> <<78, 47, 65>>,
   pressed |-> <<80, 114, 101, 115, 115, 101, 100>>,
   released |-> <<82, 101, 108, 101, 97, 115, 101, 100>>,
   notMounted |-> <<78, 111, 116, 32, 109, 111, 117, 110, 116, 101,
     100>>,
   mounted |-> <<77, 111, 117, 110, 116, 101, 100>>,
   error |-> <<69, 114, 114, 111, 114>>,
   mbFree |-> <<32, 77, 66, 32, 102, 114, 101, 101>>,
   dbm |-> <<32, 100, 66, 109>>,
   dhcp |-> <<68, 72, 67, 80>>,
   static |-> <<83, 116, 97, 116, 105, 99>>,
   status |-> <<78, 101, 116, 119, 111, 114, 107, 32, 115, 116, 97, 116,
     117, 115, 58, 32>>,
   unavailable |-> <<85, 110, 97, 118, 97, 105, 108, 97, 98, 108, 101,
     10>>,
   connected |-> <<67, 111, 110, 110, 101, 99, 116, 101, 100, 10>>,
   notConnected |-> <<78, 111, 116, 32, 99, 111, 110, 110, 101, 99, 116,
     101, 100, 10>>,
   mcu |-> <<77, 67, 85, 32, 116, 121, 112, 101, 32, 32, 58, 32>>,
   host |-> <<72, 111, 115, 116, 32, 110, 97, 109, 101, 32, 58, 32>>,
   wifi |-> <<87, 105, 70, 105, 32, 32, 32, 32, 32, 32, 58, 32>>,
   ip |-> <<73, 80, 32, 32, 32, 32, 32, 32, 32, 32, 58, 32>>,
   netmask |-> <<78, 101, 116, 109, 97, 115, 107, 32, 32, 32, 58, 32>>,
   gateway |-> <<71, 97, 116, 101, 119, 97, 121, 32, 32, 32, 58, 32>>,
   dns |-> <<68, 78, 83, 32, 32, 32, 32, 32, 32, 32, 58, 32>>,
   mac |-> <<87, 105, 70, 105, 32, 77, 65, 67, 32, 32, 58, 32>>,
   ssid |-> <<83, 83, 73, 68, 32, 32, 32, 32, 32, 32, 58, 32>>,
   bssid |-> <<66, 83, 83, 73, 68, 32, 32, 32, 32, 32, 58, 32>>,
   auth |-> <<65, 117, 116, 104, 32, 109, 111, 100, 101, 32, 58, 32>>,
   select |-> <<83, 69, 76, 69, 67, 84, 32, 32, 58, 32>>,
   sd |-> <<83, 68, 32, 99, 97, 114, 100, 32, 32, 32, 58, 32>>,
   open |-> <<32, 40>>,
   close |-> <<41>>,
   comma |-> <<44, 32>>,
   dhcpOn |-> <<116, 84, 49, 121, 89>>]

\* snprintf(buffer, size, "%s", text): the text cut to size - 1 bytes.
SnPrintf(size, text) ==
  IF Len(text) >= size THEN SubSeq(text, 1, size - 1) ELSE text

\* The value of a string of the outside when there is one, def otherwise:
\* if ((value != NULL) && (value[0] != '\0')) snprintf(buffer, ...).
ValueOr(value, def) ==
  IF value # <<>> THEN SnPrintf(TERM_NETWORK_INFO_VALUE_SIZE, value) ELSE def

\* term_getConfigValueOrNA, on the value of the entry (<<>>: no entry, no
\* value or an empty one).
term_getConfigValueOrNA(value) == ValueOr(value, MenuText.na)

\* term_getIpStringOrNA, on what ipaddr_ntoa gives for the address (<<>>: no
\* address or the any address).
term_getIpStringOrNA(address) == ValueOr(address, MenuText.na)

select_detectPush == buttonLevel

\* sdcard_getMountedInfo(&totalSizeMb, &freeSpaceMb), where f_getfree
\* answers free: its result, the filesystem object it hands back and the
\* free clusters.
sdcard_getMountedInfo(free) ==
  IF ~sdcard_isMounted \/ free.res # FR_OK \/ free.fs = "NULL"
  THEN [ok |-> FALSE, totalSizeMb |-> 0, freeSpaceMb |-> 0]
  ELSE [ok |-> TRUE,
        totalSizeMb |->
          (((free.n_fatent - 2) * free.csize) * NUM_BYTES_PER_SECTOR)
            \div SDCARD_MEGABYTE,
        freeSpaceMb |->
          (free.freeClusters * free.csize * NUM_BYTES_PER_SECTOR)
            \div SDCARD_MEGABYTE]

\* sdStatus and sdSpace as term_printNetworkInfo and term_buildLiveMenuLines
\* compute them.
SdCardValues(free) ==
  LET info == sdcard_getMountedInfo(free)
  IN IF info.ok
     THEN [sdStatus |-> MenuText.mounted,
           sdSpace |-> SnPrintf(TERM_NETWORK_INFO_VALUE_SIZE,
                         DigitsOf(info.freeSpaceMb) \o <<CH_SLASH>>
                           \o DigitsOf(info.totalSizeMb) \o MenuText.mbFree)]
     ELSE IF sdcard_isMounted
     THEN [sdStatus |-> MenuText.error, sdSpace |-> MenuText.na]
     ELSE [sdStatus |-> MenuText.notMounted, sdSpace |-> MenuText.na]

SelectStateValue ==
  IF select_detectPush THEN MenuText.pressed ELSE MenuText.released

\* The signal strength of the current network, when the radio has one.
SignalValue(net) ==
  IF net.radio /\ net.currentIp # <<>> /\ net.rssi <= 0 /\ net.rssi >= -120
  THEN SnPrintf(TERM_NETWORK_INFO_VALUE_SIZE, FormatInt(net.rssi) \o MenuText.dbm)
  ELSE MenuText.na

SsidValue(net) ==
  IF net.radio /\ net.currentIp # <<>> THEN ValueOr(net.ssid, MenuText.na)
  ELSE MenuText.na

\* The values term_printNetworkInfo prints: those of a build without the
\* radio (CYW43_WL_GPIO_LED_PIN not defined), and those of a build with it,
\* where the network stack answers net.
NetworkValues(config, net, free) ==
  LET na == MenuText.na
      hasIp == net.radio /\ net.currentIp # <<>>
      onNetIf == net.radio /\ net.netif
      card == SdCardValues(free)
  IN [hostName |-> IF onNetIf /\ net.runtimeHostname # <<>>
                   THEN ValueOr(net.runtimeHostname, na)
                   ELSE term_getConfigValueOrNA(config.hostname),
      ipAddress |-> IF hasIp THEN term_getIpStringOrNA(net.currentIp)
                    ELSE term_getConfigValueOrNA(config.ip),
      gateway |-> IF onNetIf THEN term_getIpStringOrNA(net.gw)
                  ELSE term_getConfigValueOrNA(config.gateway),
      netmask |-> IF onNetIf THEN term_getIpStringOrNA(net.netmask)
                  ELSE term_getConfigValueOrNA(config.netmask),
      dns1 |-> IF net.radio THEN term_getIpStringOrNA(net.dns0) ELSE na,
      dns2 |-> IF net.radio THEN term_getIpStringOrNA(net.dns1) ELSE na,
      ssid |-> SsidValue(net),
      signalDb |-> SignalValue(net),
      bssid |-> IF hasIp THEN ValueOr(net.bssid, na) ELSE na,
      authMode |-> IF hasIp /\ net.ssid # <<>>
                   THEN SnPrintf(TERM_NETWORK_INFO_VALUE_SIZE, net.auth) ELSE na,
      wifiMode |-> IF net.radio THEN ValueOr(net.wifiMode, na) ELSE na,
      wifiLink |-> IF net.radio THEN ValueOr(net.wifiLink, na) ELSE na,
      ipMode |-> IF net.radio /\ net.dhcp # <<>>
                 THEN IF \E i \in DOMAIN MenuText.dhcpOn :
                           net.dhcp[1] = MenuText.dhcpOn[i]
                      THEN MenuText.dhcp ELSE MenuText.static
                 ELSE na,
      wifiMac |-> IF net.radio THEN ValueOr(net.wifiMac, na) ELSE na,
      mcuArch |-> IF net.radio THEN ValueOr(net.mcuArch, na) ELSE na,
      mcuId |-> IF net.radio THEN ValueOr(net.mcuId, na) ELSE na,
      selectState |-> SelectStateValue,
      sdStatus |-> card.sdStatus,
      sdSpace |-> card.sdSpace,
      status |-> IF ~net.radio THEN MenuText.unavailable
                 ELSE IF hasIp THEN MenuText.connected
                 ELSE MenuText.notConnected]

\* A line of the menu with one value, with two values in brackets, and the
\* DNS line.
Line1(head, a) == head \o a
Line2(head, a, c) == head \o a \o MenuText.open \o c \o MenuText.close
LineDns(a, c) == MenuText.dns \o a \o MenuText.comma \o c

\* A statement of term_printNetworkInfo: a text printed or a static written.
PrintOf(text) == [op |-> "print", text |-> text]
StoreOf(name) == [op |-> "store", name |-> name]

MenuStatement(t, st) ==
  CASE st.op = "print" -> term_printString(t, st.text)
    [] st.name = "rowsInvalid" -> [t EXCEPT !.menuRowsValid = FALSE]
    [] st.name = "rowsValid" -> [t EXCEPT !.menuRowsValid = TRUE]
    [] st.name = "menuRowSsid" -> [t EXCEPT !.menuRowSsid = t.cursorY]
    [] st.name = "menuRowSelect" -> [t EXCEPT !.menuRowSelect = t.cursorY]
    [] st.name = "menuRowSd" -> [t EXCEPT !.menuRowSd = t.cursorY]

RECURSIVE MenuStatements(_, _)
\* The statements one after the other.
MenuStatements(t, sts) ==
  IF sts = <<>> THEN t
  ELSE CHOOSE r \in { MenuStatements(s, Tail(sts)) :
                        s \in { MenuStatement(t, sts[1]) } } : TRUE

\* term_printNetworkInfo(), from its first term_printString: the prints and
\* the stores in the order of the code, each TPRINTF a term_printString of
\* the formatted line.
term_printNetworkInfo(t, config, net, free) ==
  LET v == NetworkValues(config, net, free)
      nl == <<CH_LF>>
  IN MenuStatements(t,
       << PrintOf(MenuText.status),
          PrintOf(v.status),
          StoreOf("rowsInvalid"),
          PrintOf(Line2(MenuText.mcu, v.mcuArch, v.mcuId) \o nl),
          PrintOf(Line1(MenuText.host, v.hostName) \o nl),
          PrintOf(Line2(MenuText.wifi, v.wifiMode, v.wifiLink) \o nl),
          PrintOf(Line2(MenuText.ip, v.ipAddress, v.ipMode) \o nl),
          PrintOf(Line1(MenuText.netmask, v.netmask) \o nl),
          PrintOf(Line1(MenuText.gateway, v.gateway) \o nl),
          PrintOf(LineDns(v.dns1, v.dns2) \o nl),
          PrintOf(Line1(MenuText.mac, v.wifiMac) \o nl),
          StoreOf("menuRowSsid"),
          PrintOf(Line2(MenuText.ssid, v.ssid, v.signalDb) \o nl),
          PrintOf(Line1(MenuText.bssid, v.bssid) \o nl),
          PrintOf(Line1(MenuText.auth, v.authMode) \o nl),
          PrintOf(nl),
          StoreOf("menuRowSelect"),
          PrintOf(Line1(MenuText.select, v.selectState) \o nl),
          PrintOf(nl),
          StoreOf("menuRowSd"),
          PrintOf(Line2(MenuText.sd, v.sdStatus, v.sdSpace) \o nl),
          StoreOf("rowsValid") >>)

\* term_buildLiveMenuLines: the three live lines as they are now.
term_buildLiveMenuLines(net, free) ==
  LET card == SdCardValues(free)
  IN [ssidLine |-> SnPrintf(TERM_MENU_LIVE_LINE_MAX,
                     Line2(MenuText.ssid, SsidValue(net), SignalValue(net))),
      selectLine |-> SnPrintf(TERM_MENU_LIVE_LINE_MAX,
                       Line1(MenuText.select, SelectStateValue)),
      sdLine |-> SnPrintf(TERM_MENU_LIVE_LINE_MAX,
                   Line2(MenuText.sd, card.sdStatus, card.sdSpace))]

\* term_appendText(buffer, bufferSize, &offset, text), the buffer being its
\* first offset bytes: a text that does not fit is cut and fills the buffer.
term_appendText(buffer, text) ==
  IF Len(buffer) >= UPDATE_BUFFER_SIZE THEN buffer
  ELSE buffer \o SnPrintf(UPDATE_BUFFER_SIZE - Len(buffer), text)

\* term_appendMoveAndClearLine: ESC Y row column-0, ESC K.
term_appendMoveAndClearLine(buffer, row) ==
  term_appendText(buffer, EscY(row, 0) \o <<TERM_ESC_CHAR, CH_K>>)

\* The move and the text of a live line when it changed.
AppendLiveLine(buffer, changed, row, line) ==
  IF changed
  THEN term_appendText(term_appendMoveAndClearLine(buffer, row), line)
  ELSE buffer

\* term_refreshMenuLiveInfo().
term_refreshMenuLiveInfo(t, net, free) ==
  IF ~t.menuRowsValid THEN t
  ELSE
    LET lines == term_buildLiveMenuLines(net, free)
        updateSsid == lines.ssidLine # t.prevSsidLine
        updateSelect == lines.selectLine # t.prevSelectLine
        updateSd == lines.sdLine # t.prevSdLine
        withSsid == AppendLiveLine(<<>>, updateSsid, t.menuRowSsid, lines.ssidLine)
        withSelect == AppendLiveLine(withSsid, updateSelect, t.menuRowSelect,
                                     lines.selectLine)
        withSd == AppendLiveLine(withSelect, updateSd, t.menuRowSd, lines.sdLine)
        updateBuffer ==
          IF t.menuPromptValid
          THEN term_appendText(withSd, EscY(t.menuPromptRow, t.menuPromptCol))
          ELSE withSd
    IN IF ~updateSsid /\ ~updateSelect /\ ~updateSd THEN t
       ELSE term_printString(
              [t EXCEPT !.prevSsidLine = lines.ssidLine,
                        !.prevSelectLine = lines.selectLine,
                        !.prevSdLine = lines.sdLine],
              updateBuffer)

\* The menu is printed in the first MaxMenuCalls calls.
MaxMenuCalls == 2

\* The settings of the network: none, and all four.
NoConfig == [hostname |-> <<>>, ip |-> <<>>, gateway |-> <<>>, netmask |-> <<>>]
AllConfig ==
  [hostname |-> <<104>>, ip |-> <<49>>, gateway |-> <<50>>, netmask |-> <<51>>]

\* The build without the radio; the radio with no address; the radio
\* connected to a network.
NoRadio ==
  [radio |-> FALSE, currentIp |-> <<>>, netif |-> FALSE, gw |-> <<>>,
   netmask |-> <<>>, runtimeHostname |-> <<>>, dns0 |-> <<>>, dns1 |-> <<>>,
   ssid |-> <<>>, bssid |-> <<>>, auth |-> <<>>, rssi |-> 0,
   wifiMode |-> <<>>, wifiLink |-> <<>>, dhcp |-> <<>>, wifiMac |-> <<>>,
   mcuArch |-> <<>>, mcuId |-> <<>>]
RadioDown == [NoRadio EXCEPT !.radio = TRUE, !.wifiMode = <<83>>, !.rssi = 1]
RadioUp ==
  [RadioDown EXCEPT !.currentIp = <<52>>, !.netif = TRUE, !.gw = <<53>>,
                    !.runtimeHostname = <<114>>, !.dns0 = <<54>>,
                    !.ssid = <<115>>, !.bssid = <<98>>, !.auth = <<87>>,
                    !.rssi = -7, !.wifiLink = <<85>>, !.dhcp = <<116>>,
                    !.wifiMac = <<109>>, !.mcuArch = <<65>>, !.mcuId = <<73>>]

\* f_getfree fails, succeeds on a 16 MB volume with 4 MB free, or succeeds
\* and hands back no filesystem object.
FreeError ==
  [res |-> FR_DISK_ERR, fs |-> "NULL", n_fatent |-> 0, csize |-> 0,
   freeClusters |-> 0]
FreeOk ==
  [res |-> FR_OK, fs |-> "fs1", n_fatent |-> 4098, csize |-> 8,
   freeClusters |-> 1024]
FreeNoFs == [FreeOk EXCEPT !.fs = "NULL"]

\* What the outside answers during one call: a build without the radio and
\* without settings, a connected radio with settings, a connected radio
\* whose authentication type has an empty name, and a radio without an
\* address.
MenuEnvs ==
  { [config |-> NoConfig, net |-> NoRadio, free |-> FreeError],
    [config |-> AllConfig, net |-> RadioUp, free |-> FreeOk],
    [config |-> NoConfig, net |-> [RadioUp EXCEPT !.auth = <<>>],
     free |-> FreeOk],
    [config |-> AllConfig, net |-> RadioDown, free |-> FreeNoFs] }

\* The driver and FatFs doing all they are asked.
SdEnvOk == [driver |-> TRUE, mount |-> FR_OK, dirExist |-> TRUE, mkdir |-> FR_OK]

ApiPrintNetworkInfo(config, net, free) ==
  /\ Len(apiCalls) < MaxMenuCalls
  /\ \E t \in { term_printNetworkInfo(Term, config, net, free) } : SetTerm(t)
  /\ apiCalls' = Append(apiCalls, [op |-> "term_printNetworkInfo",
                                   arg |-> <<>>, before |-> Term])
  /\ UNCHANGED <<chanVars, memVars, isr, loop, ghostVars, moduleVars>>

ApiRefreshMenuLiveInfo(net, free) ==
  /\ Len(apiCalls) < MaxCalls
  /\ \E t \in { term_refreshMenuLiveInfo(Term, net, free) } : SetTerm(t)
  /\ apiCalls' = Append(apiCalls, [op |-> "term_refreshMenuLiveInfo",
                                   arg |-> <<>>, before |-> Term])
  /\ UNCHANGED <<chanVars, memVars, isr, loop, ghostVars, moduleVars>>

\* The application shows the menu and its prompt, keeps the live lines up
\* to date and clears the screen, while the button changes and the card is
\* mounted or fails to mount.
NextMenu ==
  \/ \E env \in MenuEnvs : ApiPrintNetworkInfo(env.config, env.net, env.free)
  \/ ApiPrintString(STR_PROMPT)
  \/ ApiMarkMenuPromptCursor
  \/ \E env \in MenuEnvs : ApiRefreshMenuLiveInfo(env.net, env.free)
  \/ ApiClearScreen
  \/ ButtonChange
  \/ CallInitFilesystem("fs1", <<102>>, SdEnvOk)

SpecMenu == Init /\ [][NextMenu]_vars

----------------------------------------------------------------------------
(* The settings commands of term.c: term_cmdSettings, term_cmdPrint,       *)
(* term_cmdSave, term_cmdErase, term_cmdGet, term_cmdPutBool and           *)
(* term_cmdPutString. Each is a registered handler that may also be called *)
(* directly; it calls the settings store and prints on the terminal. The   *)
(* store is outside the module: what it answers is an input of the call.   *)

\* sizeof(valueStr) in term_parseBoolToken, a parameter of the build: the
\* smallest size that holds every word the function accepts.
TERM_BOOL_INPUT_BUFF == 6

\* The literal texts of the settings commands, as byte strings.
SettingsText ==
  [invalidBool |-> <<73, 110, 118, 97, 108, 105, 100, 32, 97, 114, 103, 117,
     109, 101, 110, 116, 115, 32, 102, 111, 114, 32, 39, 112, 117, 116, 95,
     98, 111, 111, 108, 39, 32, 99, 111, 109, 109, 97, 110, 100, 46, 32, 85,
     115, 97, 103, 101, 58, 32, 112, 117, 116, 95, 98, 111, 111, 108, 32,
     60, 107, 101, 121, 62, 32, 60, 116, 114, 117, 101, 47, 102, 97, 108,
     115, 101, 62, 10>>,
   errorBool |-> <<69, 114, 114, 111, 114, 32, 115, 101, 116, 116, 105, 110,
     103, 32, 98, 111, 111, 108, 101, 97, 110, 32, 118, 97, 108, 117, 101,
     32, 102, 111, 114, 32, 107, 101, 121, 58, 32>>,
   invalidString |-> <<73, 110, 118, 97, 108, 105, 100, 32, 97, 114, 103,
     117, 109, 101, 110, 116, 115, 32, 102, 111, 114, 32, 39, 112, 117, 116,
     95, 115, 116, 114, 105, 110, 103, 39, 32, 99, 111, 109, 109, 97, 110,
     100, 46, 10>>,
   errorString |-> <<69, 114, 114, 111, 114, 32, 115, 101, 116, 116, 105,
     110, 103, 32, 115, 116, 114, 105, 110, 103, 32, 118, 97, 108, 117, 101,
     32, 102, 111, 114, 32, 107, 101, 121, 58, 32>>,
   key |-> <<75, 101, 121, 58, 32>>,
   value |-> <<86, 97, 108, 117, 101, 58, 32>>,
   true |-> <<116, 114, 117, 101>>,
   false |-> <<102, 97, 108, 115, 101>>,
   empty |-> <<60, 69, 77, 80, 84, 89, 62>>,
   saved |-> <<83, 101, 116, 116, 105, 110, 103, 115, 32, 115, 97, 118, 101,
     100, 46, 10>>,
   erased |-> <<83, 101, 116, 116, 105, 110, 103, 115, 32, 101, 114, 97,
     115, 101, 100, 46, 10>>,
   type |-> <<84, 121, 112, 101, 58, 32>>,
   int |-> <<73, 78, 84>>,
   string |-> <<83, 84, 82, 73, 78, 71>>,
   bool |-> <<66, 79, 79, 76>>,
   unknown |-> <<85, 78, 75, 78, 79, 87, 78>>,
   notFound |-> <<75, 101, 121, 32, 110, 111, 116, 32, 102, 111, 117, 110,
     100, 46, 10>>,
   noKey |-> <<78, 111, 32, 107, 101, 121, 32, 112, 114, 111, 118, 105, 100,
     101, 100, 32, 102, 111, 114, 32, 39, 103, 101, 116, 39, 32, 99, 111,
     109, 109, 97, 110, 100, 46, 10>>,
   outOfMemory |-> <<69, 114, 114, 111, 114, 58, 32, 79, 117, 116, 32, 111,
     102, 32, 109, 101, 109, 111, 114, 121, 46, 10>>]

\* The lines term_cmdSettings prints, one term_printString each.
SettingsHelp ==
  <<<<27, 69, 65, 118, 97, 105, 108, 97, 98, 108, 101, 32, 115, 101, 116,
      116, 105, 110, 103, 115, 32, 99, 111, 109, 109, 97, 110, 100, 115, 58,
      10>>,
    <<32, 32, 112, 114, 105, 110, 116, 32, 32, 32, 45, 32, 83, 104, 111,
      119, 32, 115, 101, 116, 116, 105, 110, 103, 115, 10>>,
    <<32, 32, 115, 97, 118, 101, 32, 32, 32, 32, 45, 32, 83, 97, 118, 101,
      32, 115, 101, 116, 116, 105, 110, 103, 115, 10>>,
    <<32, 32, 101, 114, 97, 115, 101, 32, 32, 32, 45, 32, 69, 114, 97, 115,
      101, 32, 115, 101, 116, 116, 105, 110, 103, 115, 10>>,
    <<32, 32, 103, 101, 116, 32, 32, 32, 32, 32, 45, 32, 71, 101, 116, 32,
      115, 101, 116, 116, 105, 110, 103, 32, 40, 114, 101, 113, 117, 105,
      114, 101, 115, 32, 107, 101, 121, 41, 10>>,
    <<32, 32, 112, 117, 116, 95, 105, 110, 116, 32, 45, 32, 83, 101, 116,
      32, 105, 110, 116, 101, 103, 101, 114, 32, 40, 107, 101, 121, 32, 97,
      110, 100, 32, 118, 97, 108, 117, 101, 41, 10>>,
    <<32, 32, 112, 117, 116, 95, 98, 111, 111, 108, 45, 32, 83, 101, 116,
      32, 98, 111, 111, 108, 101, 97, 110, 32, 40, 107, 101, 121, 32, 97,
      110, 100, 32, 118, 97, 108, 117, 101, 41, 10>>,
    <<32, 32, 112, 117, 116, 95, 115, 116, 114, 32, 45, 32, 83, 101, 116,
      32, 115, 116, 114, 105, 110, 103, 32, 40, 107, 101, 121, 32, 97, 110,
      100, 32, 118, 97, 108, 117, 101, 41, 10>>,
    <<10>>>>

\* tolower of one byte in the C locale.
ToLower(c) == IF c >= 65 /\ c <= 90 THEN c + 32 ELSE c

\* term_parseBoolToken(valueToken, &value): the token runs to the first
\* blank, tab, CR or LF; it is read without regard to case.
term_parseBoolToken(valueToken) ==
  LET valueLen == RunEnd(valueToken, 1, Len(valueToken), {32, 9, 13, 10}) - 1
      valueStr == [i \in 1..valueLen |-> ToLower(valueToken[i])]
  IN IF valueLen = 0 \/ valueLen >= TERM_BOOL_INPUT_BUFF
     THEN [ok |-> FALSE, value |-> FALSE]
     ELSE IF valueStr \in {SettingsText.true, <<116>>, <<49>>}
     THEN [ok |-> TRUE, value |-> TRUE]
     ELSE IF valueStr \in {SettingsText.false, <<102>>, <<48>>}
     THEN [ok |-> TRUE, value |-> FALSE]
     ELSE [ok |-> FALSE, value |-> FALSE]

\* One TPRINTF or term_printString of a settings command.
Msg(text) == [text |-> text]

\* term_cmdSettings(arg): the list of the settings commands.
term_cmdSettings(arg) ==
  [calls |-> <<>>,
   output |-> [i \in DOMAIN SettingsHelp |-> Msg(SettingsHelp[i])]]

\* term_cmdPrint(arg): settings_print fills the buffer with env.printed
\* when malloc gives one (env.malloc).
term_cmdPrint(arg, env) ==
  IF ~env.malloc
  THEN [calls |-> <<>>, output |-> <<Msg(SettingsText.outOfMemory)>>]
  ELSE [calls |-> <<[fn |-> "settings_print"]>>,
        output |-> <<Msg(env.printed)>>]

\* term_cmdSave(arg): settings_save(ctx, true).
term_cmdSave(arg) ==
  [calls |-> <<[fn |-> "settings_save", disableInterrupts |-> TRUE]>>,
   output |-> <<Msg(SettingsText.saved)>>]

\* term_cmdErase(arg).
term_cmdErase(arg) ==
  [calls |-> <<[fn |-> "settings_erase"]>>,
   output |-> <<Msg(SettingsText.erased)>>]

\* The name TPRINTF prints for entry->dataType.
TypeName(dataType) ==
  CASE dataType = "SETTINGS_TYPE_INT" -> SettingsText.int
    [] dataType = "SETTINGS_TYPE_STRING" -> SettingsText.string
    [] dataType = "SETTINGS_TYPE_BOOL" -> SettingsText.bool
    [] OTHER -> SettingsText.unknown

\* term_cmdGet(arg): settings_find_entry answers env.entry, or NULL (found
\* is false).
term_cmdGet(arg, env) ==
  IF arg # <<>>
  THEN [calls |-> <<[fn |-> "settings_find_entry", key |-> arg]>>,
        output |->
          IF env.entry.found
          THEN <<Msg(SettingsText.key \o env.entry.key \o <<CH_LF>>),
                 Msg(SettingsText.type),
                 Msg(TypeName(env.entry.dataType)),
                 Msg(<<CH_LF>>),
                 Msg(SettingsText.value \o env.entry.value \o <<CH_LF>>)>>
          ELSE <<Msg(SettingsText.notFound)>>]
  ELSE [calls |-> <<>>, output |-> <<Msg(SettingsText.noKey)>>]

\* term_cmdPutBool(arg): settings_put_bool returns env.err.
term_cmdPutBool(arg, env) ==
  LET parsed == term_parseKeyAndTail(arg, SETTINGS_MAX_KEY_LENGTH)
      token == term_parseBoolToken(parsed.tail)
  IN IF parsed.ok /\ token.ok
     THEN [calls |-> <<[fn |-> "settings_put_bool", key |-> parsed.key,
                        value |-> token.value]>>,
           output |->
             IF env.err = 0
             THEN <<Msg(SettingsText.key \o parsed.key \o <<CH_LF>>),
                    Msg(SettingsText.value
                          \o (IF token.value THEN SettingsText.true
                              ELSE SettingsText.false)
                          \o <<CH_LF>>)>>
             ELSE <<Msg(SettingsText.errorBool \o parsed.key \o <<CH_LF>>)>>]
     ELSE [calls |-> <<>>, output |-> <<Msg(SettingsText.invalidBool)>>]

\* term_cmdPutString(arg): the value is the whole tail, empty when there is
\* none; settings_put_string returns env.err.
term_cmdPutString(arg, env) ==
  LET parsed == term_parseKeyAndTail(arg, SETTINGS_MAX_KEY_LENGTH)
      safeValue == parsed.tail
  IN IF parsed.ok
     THEN [calls |-> <<[fn |-> "settings_put_string", key |-> parsed.key,
                        value |-> safeValue]>>,
           output |->
             IF env.err = 0
             THEN <<Msg(SettingsText.key \o parsed.key \o <<CH_LF>>),
                    Msg(SettingsText.value
                          \o (IF safeValue # <<>> THEN safeValue
                              ELSE SettingsText.empty)
                          \o <<CH_LF>>)>>
             ELSE <<Msg(SettingsText.errorString \o parsed.key \o <<CH_LF>>)>>]
     ELSE [calls |-> <<>>, output |-> <<Msg(SettingsText.invalidString)>>]

\* The handler named name, called with arg while the store answers env.
SettingsCommand(name, arg, env) ==
  CASE name = "term_cmdSettings" -> term_cmdSettings(arg)
    [] name = "term_cmdPrint" -> term_cmdPrint(arg, env)
    [] name = "term_cmdSave" -> term_cmdSave(arg)
    [] name = "term_cmdErase" -> term_cmdErase(arg)
    [] name = "term_cmdGet" -> term_cmdGet(arg, env)
    [] name = "term_cmdPutBool" -> term_cmdPutBool(arg, env)
    [] name = "term_cmdPutString" -> term_cmdPutString(arg, env)

MaxSettingsCalls == 2

SettingsHandlers ==
  {"term_cmdSettings", "term_cmdPrint", "term_cmdSave", "term_cmdErase",
   "term_cmdGet", "term_cmdPutBool", "term_cmdPutString"}

\* Value tokens of put_bool and put_string: the six words, in upper case
\* and mixed, a word that is none of them, one longer than the buffer, a
\* missing value, and a word followed by a second one.
SettingsValues ==
  { SettingsText.true, SettingsText.false, <<116>>, <<102>>, <<49>>, <<48>>,
    <<84, 82, 85, 69>>, <<70, 97, 108, 115, 101>>, <<118>>,
    <<116, 114, 117, 101, 116, 114, 117, 101>>, <<>>,
    <<116, 114, 117, 101, 32, 120>>, <<116, 9, 120>> }

\* The argument strings: a key of one byte or of the maximum length, with
\* and without a value, a key alone followed by a blank, and no key.
SettingsArgs ==
  { key \o <<CH_SPACE>> \o value :
      key \in {<<107>>, [i \in 1..SETTINGS_MAX_KEY_LENGTH |-> 107]},
      value \in SettingsValues }
    \cup { <<>>, <<107>>, <<CH_SPACE, 107>> }

\* The arguments a handler is called with: those without a parameter of
\* their own are called with an empty string.
ArgsOf(name) ==
  IF name \in {"term_cmdGet", "term_cmdPutBool", "term_cmdPutString"}
  THEN SettingsArgs ELSE { <<>> }

\* What settings_find_entry answers: no entry, or an entry of each type.
SettingsEntries ==
  { [found |-> FALSE, key |-> <<>>, dataType |-> "NULL", value |-> <<>>] } \cup
  { [found |-> TRUE, key |-> <<107>>, dataType |-> type, value |-> <<49>>] :
      type \in {"SETTINGS_TYPE_INT", "SETTINGS_TYPE_STRING",
                "SETTINGS_TYPE_BOOL", "SETTINGS_TYPE_OTHER"} }

\* The store and malloc doing all they are asked: no error, no entry under
\* the key, a buffer, and one line written by settings_print.
SettingsEnvOk ==
  [err |-> 0, malloc |-> TRUE, printed |-> <<107, 61, 49, 10>>,
   entry |-> [found |-> FALSE, key |-> <<>>, dataType |-> "NULL",
              value |-> <<>>]]

\* The answers of the store and of malloc during one call of a handler:
\* each answer the handler asks for, over all its values.
EnvsOf(name) ==
  CASE name \in {"term_cmdPutBool", "term_cmdPutString"} ->
         { [SettingsEnvOk EXCEPT !.err = err] : err \in PutResults }
    [] name = "term_cmdGet" ->
         { [SettingsEnvOk EXCEPT !.entry = entry] : entry \in SettingsEntries }
    [] name = "term_cmdPrint" ->
         { [SettingsEnvOk EXCEPT !.malloc = malloc] : malloc \in BOOLEAN }
    [] OTHER -> { SettingsEnvOk }

ApiSettingsCommand(name, arg, env) ==
  /\ Len(apiCalls) < MaxSettingsCalls
  /\ \E r \in { SettingsCommand(name, arg, env) } :
       /\ settingsCalls' = settingsCalls \o r.calls
       /\ termOutput' = termOutput \o r.output
       /\ \E t \in { PrintMessages(Term, r.output) } : SetTerm(t)
  /\ apiCalls' = Append(apiCalls, [op |-> name, arg |-> arg, before |-> Term])
  /\ UNCHANGED <<chanVars, memVars, isr, loop, ghostVars, selectVars,
                 pollVars, sdVars, callVars, settingsPuts>>

\* A direct call of the handler of entry i of the command table.
ApiCallHandler(i, arg) ==
  /\ Len(apiCalls) < MaxSettingsCalls
  /\ \E t \in { CallHandler(Term, i, arg) } : SetTerm(t)
  /\ apiCalls' = Append(apiCalls, [op |-> commands[i].handler, arg |-> arg,
                                   before |-> Term])
  /\ UNCHANGED <<chanVars, memVars, isr, loop, ghostVars, moduleVars>>

NextSettings ==
  \/ \E name \in SettingsHandlers : \E arg \in ArgsOf(name) :
       \E env \in EnvsOf(name) : ApiSettingsCommand(name, arg, env)
  \/ \E i \in DOMAIN commands : ApiCallHandler(i, <<>>)

SpecSettings == Init /\ [][NextSettings]_vars

============================================================================
